---- MODULE Spec2Model ----
(***************************************************************************)
(* A model of the red-squirrel chess engine: movement rules and check      *)
(* detection (legal_moves.py), move generation, make/undo and the          *)
(* alpha-beta negamax search (engine/search.py), and the static evaluator  *)
(* (evaluation.py).                                                        *)
(*                                                                         *)
(* A board is a function row -> column -> cell, rows and columns 0..7, a   *)
(* cell one of the one-character strings of the source ("." is empty,      *)
(* upper case is White).  A square is the pair <<row, col>>.  Python's     *)
(* None is NoPos for a square and NoPiece for a promotion piece.           *)
(***************************************************************************)
EXTENDS Integers, Sequences, FiniteSets, TLC

Rows == 0..7

WhitePieces == {"P", "N", "B", "R", "Q", "K"}
BlackPieces == {"p", "n", "b", "r", "q", "k"}

NoPos == <<>>
NoPiece == "None"

isupper(ch) == ch \in WhitePieces
islower(ch) == ch \in BlackPieces

Abs(x) == IF x < 0 THEN -x ELSE x

InRange(x) == 0 <= x /\ x < 8

\* A cell of the board written: board_state[r][c] = v.
SetCell(b, r, c, v) == [b EXCEPT ![r] = [b[r] EXCEPT ![c] = v]]

\* The squares in the order of the nested loops `for r in range(8): for c in range(8)`.
SquareAt(k) == <<k \div 8, k % 8>>

\* A board from its eight rows, top row (row 0) first.
B(rows) == [r \in Rows |-> [c \in Rows |-> rows[r + 1][c + 1]]]

Contains(s, x) == \E i \in 1..Len(s) : s[i] = x

Opt(cond, x) == IF cond THEN <<x>> ELSE <<>>

(***************************************************************************)
(* legal_moves.py: movement rules                                          *)
(***************************************************************************)
\* A direction that follows the display: turned round when White is on top.
PawnDirectionOfDisplay(piece, white_on_bottom) ==
    IF isupper(piece) = white_on_bottom THEN -1 ELSE 1

get_pawn_direction(piece, white_on_bottom) == IF isupper(piece) THEN -1 ELSE 1

\* Start rows two rows further up the board than the home ranks.
PawnStartRowAdvanced(piece, white_on_bottom) == IF isupper(piece) THEN 4 ELSE 3

\* A start row that is Black's for both colours.
PawnStartRowOfBlack(piece, white_on_bottom) == 1

get_pawn_start_row(piece, white_on_bottom) == IF isupper(piece) THEN 6 ELSE 1

is_promotion_move(from_pos, to_pos, b, white_on_bottom) ==
    LET piece == b[from_pos[1]][from_pos[2]]
        to_row == to_pos[1]
    IN  /\ piece \in {"P", "p"}
        /\ \/ piece = "P" /\ to_row = 0
           \/ piece = "p" /\ to_row = 7

\* A promoted piece that keeps the lower-case letter of the choice.
PromotedPieceLower(piece_type, is_white) == piece_type

\* str.upper and str.lower on the one-letter piece names.
upper(ch) ==
    CASE ch \in {"q", "Q"} -> "Q" [] ch \in {"r", "R"} -> "R"
      [] ch \in {"b", "B"} -> "B" [] ch \in {"n", "N"} -> "N"
      [] ch \in {"k", "K"} -> "K" [] ch \in {"p", "P"} -> "P"
      [] OTHER -> ch

lower(ch) ==
    CASE ch \in {"q", "Q"} -> "q" [] ch \in {"r", "R"} -> "r"
      [] ch \in {"b", "B"} -> "b" [] ch \in {"n", "N"} -> "n"
      [] ch \in {"k", "K"} -> "k" [] ch \in {"p", "P"} -> "p"
      [] OTHER -> ch

get_promoted_piece(piece_type, is_white) ==
    IF is_white THEN upper(piece_type) ELSE lower(piece_type)

\* One neighbour of the en-passant section of get_pawn_moves (dc = -1 left, +1 right).
PawnEpSide(row, col, dc, piece, direction, b, last_pawn_move) ==
    IF (IF dc = -1 THEN col > 0 ELSE col < 7)
    THEN LET enemy_c == col + dc
             enemy == b[row][enemy_c]
         IN  IF /\ enemy # "."
                /\ isupper(piece) # isupper(enemy)
                /\ last_pawn_move = <<row, enemy_c>>
             THEN Opt(/\ InRange(row + direction)
                      /\ InRange(col + dc)
                      /\ b[row + direction][col + dc] = ".",
                      <<row + direction, col + dc>>)
             ELSE <<>>
    ELSE <<>>

get_pawn_moves(position, b, white_on_bottom, last_pawn_move) ==
    LET row == position[1]
        col == position[2]
        piece == b[row][col]
        direction == get_pawn_direction(piece, white_on_bottom)
        start_r == get_pawn_start_row(piece, white_on_bottom)
        forward ==
            IF InRange(row + direction) /\ b[row + direction][col] = "."
            THEN <<<<row + direction, col>>>> \o
                 Opt(/\ row = start_r
                     /\ InRange(row + 2 * direction)
                     /\ b[row + 2 * direction][col] = ".",
                     <<row + 2 * direction, col>>)
            ELSE <<>>
        capture(dc) ==
            Opt(/\ (IF dc = -1 THEN col > 0 ELSE col < 7)
                /\ InRange(row + direction)
                /\ b[row + direction][col + dc] # "."
                /\ isupper(piece) # isupper(b[row + direction][col + dc]),
                <<row + direction, col + dc>>)
        ep_row == IF isupper(piece) THEN 3 ELSE 4
        ep == IF row = ep_row /\ last_pawn_move # NoPos
              THEN PawnEpSide(row, col, -1, piece, direction, b, last_pawn_move) \o
                   PawnEpSide(row, col, 1, piece, direction, b, last_pawn_move)
              ELSE <<>>
    IN  forward \o capture(-1) \o capture(1) \o ep

\* The loop over a fixed offset table shared by get_knight_moves and get_king_moves.
RECURSIVE OffsetMoves(_, _, _, _, _, _)
OffsetMoves(row, col, offsets, i, piece, b) ==
    IF i > Len(offsets) THEN <<>>
    ELSE LET r == row + offsets[i][1]
             c == col + offsets[i][2]
         IN  Opt(/\ InRange(r) /\ InRange(c)
                 /\ \/ b[r][c] = "."
                    \/ isupper(piece) # isupper(b[r][c]),
                 <<r, c>>)
             \o OffsetMoves(row, col, offsets, i + 1, piece, b)

KnightOffsets ==
    << <<-2, -1>>, <<-2, 1>>, <<-1, -2>>, <<-1, 2>>,
       <<1, -2>>, <<1, 2>>, <<2, -1>>, <<2, 1>> >>

KingOffsets ==
    << <<-1, 0>>, <<1, 0>>, <<0, -1>>, <<0, 1>>,
       <<-1, -1>>, <<-1, 1>>, <<1, -1>>, <<1, 1>> >>

get_knight_moves(position, b) ==
    OffsetMoves(position[1], position[2], KnightOffsets, 1,
                b[position[1]][position[2]], b)

get_king_moves(position, b) ==
    OffsetMoves(position[1], position[2], KingOffsets, 1,
                b[position[1]][position[2]], b)

\* A walk that also takes the square of a friendly piece that blocks it.
RECURSIVE LinearWalkOntoFriends(_, _, _, _, _, _)
LinearWalkOntoFriends(r, c, dr, dc, piece, b) ==
    IF ~(InRange(r) /\ InRange(c)) THEN <<>>
    ELSE IF b[r][c] = "."
    THEN <<<<r, c>>>> \o LinearWalkOntoFriends(r + dr, c + dc, dr, dc, piece, b)
    ELSE <<<<r, c>>>>

\* The inner while loop of get_linear_moves: the walk along one direction from (r, c).
RECURSIVE LinearWalk(_, _, _, _, _, _)
LinearWalk(r, c, dr, dc, piece, b) ==
    IF ~(InRange(r) /\ InRange(c)) THEN <<>>
    ELSE IF b[r][c] = "." THEN <<<<r, c>>>> \o LinearWalk(r + dr, c + dc, dr, dc, piece, b)
    ELSE IF isupper(piece) # isupper(b[r][c]) THEN <<<<r, c>>>>
    ELSE <<>>

RECURSIVE LinearDirs(_, _, _, _, _, _)
LinearDirs(row, col, directions, i, piece, b) ==
    IF i > Len(directions) THEN <<>>
    ELSE LinearWalk(row + directions[i][1], col + directions[i][2],
                    directions[i][1], directions[i][2], piece, b)
         \o LinearDirs(row, col, directions, i + 1, piece, b)

get_linear_moves(row, col, directions, piece, b) ==
    LinearDirs(row, col, directions, 1, piece, b)

RookDirs == << <<0, 1>>, <<1, 0>>, <<0, -1>>, <<-1, 0>> >>
BishopDirs == << <<1, 1>>, <<1, -1>>, <<-1, 1>>, <<-1, -1>> >>
QueenDirs == RookDirs \o BishopDirs

get_rook_moves(position, b) ==
    get_linear_moves(position[1], position[2], RookDirs, b[position[1]][position[2]], b)

get_bishop_moves(position, b) ==
    get_linear_moves(position[1], position[2], BishopDirs, b[position[1]][position[2]], b)

get_queen_moves(position, b) ==
    get_linear_moves(position[1], position[2], QueenDirs, b[position[1]][position[2]], b)

calculate_valid_moves(position, b, white_on_bottom, last_pawn_move) ==
    LET piece == b[position[1]][position[2]]
    IN  IF piece \in {"P", "p"} THEN get_pawn_moves(position, b, white_on_bottom, last_pawn_move)
        ELSE IF piece \in {"N", "n"} THEN get_knight_moves(position, b)
        ELSE IF piece \in {"R", "r"} THEN get_rook_moves(position, b)
        ELSE IF piece \in {"B", "b"} THEN get_bishop_moves(position, b)
        ELSE IF piece \in {"Q", "q"} THEN get_queen_moves(position, b)
        ELSE IF piece \in {"K", "k"} THEN get_king_moves(position, b)
        ELSE <<>>

(***************************************************************************)
(* legal_moves.py: check detection, the legality filter, castling          *)
(***************************************************************************)
\* A king search that falls back on the king's home square.
FindKingOrHome(player_color, b) ==
    LET king == IF player_color = "white" THEN "K" ELSE "k"
        ks == {k \in 0..63 : b[k \div 8][k % 8] = king}
    IN  IF ks = {} THEN (IF player_color = "white" THEN <<7, 4>> ELSE <<0, 4>>)
        ELSE SquareAt(CHOOSE k \in ks : \A j \in ks : k <= j)

\* The first king of the colour in scan order, NoPos when there is none.
FindKing(player_color, b) ==
    LET king == IF player_color = "white" THEN "K" ELSE "k"
        ks == {k \in 0..63 : b[k \div 8][k % 8] = king}
    IN  IF ks = {} THEN NoPos
        ELSE SquareAt(CHOOSE k \in ks : \A j \in ks : k <= j)

is_in_check(player_color, b, white_on_bottom) ==
    LET king_position == FindKing(player_color, b)
    IN  /\ king_position # NoPos
        /\ \E r \in Rows, c \in Rows :
              /\ IF player_color = "white" THEN islower(b[r][c]) ELSE isupper(b[r][c])
              /\ Contains(calculate_valid_moves(<<r, c>>, b, white_on_bottom, NoPos),
                          king_position)

en_passant(start, end, piece, b, last_pawn_move, white_on_bottom) ==
    LET direction == get_pawn_direction(piece, white_on_bottom)
        enemy_row == end[1] - direction
    IN  /\ Abs(start[2] - end[2]) = 1
        /\ b[end[1]][end[2]] = "."
        /\ InRange(enemy_row)
        /\ last_pawn_move = <<enemy_row, end[2]>>
        /\ b[enemy_row][end[2]] = (IF isupper(piece) THEN "p" ELSE "P")

\* leaves_king_in_check simulates the move on the board it is given, asks
\* is_in_check, and writes the cells back.  LegalityProbe is the board it asks
\* is_in_check on; leaves_king_in_check_board is the board the call leaves behind.
LegalityProbe(start, end, b, white_on_bottom, last_pawn_move) ==
    LET piece == b[start[1]][start[2]]
        b1 == SetCell(SetCell(b, start[1], start[2], "."), end[1], end[2], piece)
    IN  IF en_passant(start, end, piece, b1, last_pawn_move, white_on_bottom)
        THEN SetCell(b1, end[1] - get_pawn_direction(piece, white_on_bottom), end[2], ".")
        ELSE b1

leaves_king_in_check(start, end, b, current_turn, white_on_bottom, last_pawn_move) ==
    is_in_check(current_turn,
                LegalityProbe(start, end, b, white_on_bottom, last_pawn_move),
                white_on_bottom)

\* A legality filter that writes back the start cell only.
LeavesMoveOnBoard(start, end, b, current_turn, white_on_bottom, last_pawn_move) ==
    SetCell(LegalityProbe(start, end, b, white_on_bottom, last_pawn_move),
            start[1], start[2], b[start[1]][start[2]])

leaves_king_in_check_board(start, end, b, current_turn, white_on_bottom, last_pawn_move) ==
    LET piece == b[start[1]][start[2]]
        b1 == SetCell(SetCell(b, start[1], start[2], "."), end[1], end[2], piece)
        is_en_passant_capture ==
            en_passant(start, end, piece, b1, last_pawn_move, white_on_bottom)
        captured_pawn_row == end[1] - get_pawn_direction(piece, white_on_bottom)
        probe == LegalityProbe(start, end, b, white_on_bottom, last_pawn_move)
        b3 == SetCell(SetCell(probe, start[1], start[2], b[start[1]][start[2]]),
                      end[1], end[2], b[end[1]][end[2]])
    IN  IF is_en_passant_capture
        THEN SetCell(b3, captured_pawn_row, end[2], IF piece = "P" THEN "p" ELSE "P")
        ELSE b3

\* squares_under_attack puts a king of player_color on each square in turn, asks
\* is_in_check, and puts the cell's own content back before it goes on or returns:
\* every probe is made on b with that one cell replaced.
squares_under_attack(squares, player_color, b, white_on_bottom) ==
    \E i \in 1..Len(squares) :
        is_in_check(player_color,
                    SetCell(b, squares[i][1], squares[i][2],
                            IF player_color = "white" THEN "K" ELSE "k"),
                    white_on_bottom)

\* The board squares_under_attack leaves: each iteration from the i-th writes the
\* king, asks is_in_check and writes original_piece back, before `return True`
\* as well as before the next iteration.
RECURSIVE squares_under_attack_board(_, _, _, _, _)
squares_under_attack_board(squares, i, player_color, b, white_on_bottom) ==
    IF i > Len(squares) THEN b
    ELSE LET r == squares[i][1]
             c == squares[i][2]
             placed == SetCell(b, r, c, IF player_color = "white" THEN "K" ELSE "k")
             restored == SetCell(placed, r, c, b[r][c])
         IN  IF is_in_check(player_color, placed, white_on_bottom) THEN restored
             ELSE squares_under_attack_board(squares, i + 1, player_color, restored,
                                             white_on_bottom)

\* The board one wing of calculate_castling_moves leaves: path_safe runs only
\* when the tests before it pass.
CastleWingBoard(b, white_on_bottom, player_color, king_row, king_moved, rook_moved, rook_col, expected_rook, path_cols, safe_squares) ==
    IF /\ ~king_moved
       /\ ~rook_moved
       /\ b[king_row][rook_col] = expected_rook
       /\ \A c \in path_cols : b[king_row][c] = "."
       /\ ~is_in_check(player_color, b, white_on_bottom)
    THEN squares_under_attack_board(safe_squares, 1, player_color, b, white_on_bottom)
    ELSE b

\* The board calculate_castling_moves leaves: queenside, then kingside.
CastleWingsBoard(row, col, b, white_on_bottom, player_color, cs) ==
    IF <<row, col>> # <<cs.king_row, 4>> THEN b
    ELSE CastleWingBoard(
             CastleWingBoard(b, white_on_bottom, player_color, cs.king_row,
                             cs.king_moved, cs.rook_left_moved, 0, cs.expected_rook,
                             1..3, << <<cs.king_row, 3>>, <<cs.king_row, 2>> >>),
             white_on_bottom, player_color, cs.king_row, cs.king_moved,
             cs.rook_right_moved, 7, cs.expected_rook, 5..6,
             << <<cs.king_row, 5>>, <<cs.king_row, 6>> >>)

\* One wing of calculate_castling_moves: the rights test, path_clear, the check test
\* and path_safe.
CastleWing(b, white_on_bottom, player_color, king_row, king_moved, rook_moved, rook_col, expected_rook, path_cols, safe_squares, dest) ==
    Opt(/\ ~king_moved
        /\ ~rook_moved
        /\ b[king_row][rook_col] = expected_rook
        /\ \A c \in path_cols : b[king_row][c] = "."
        /\ ~is_in_check(player_color, b, white_on_bottom)
        /\ ~squares_under_attack(safe_squares, player_color, b, white_on_bottom),
        dest)

\* The values calculate_castling_moves picks by colour (lines 402-419).
CastleSetup(player_color, wk, wrl, wrr, bk, brl, brr) ==
    IF player_color = "white"
    THEN [king_row |-> 7, king_moved |-> wk, rook_left_moved |-> wrl,
          rook_right_moved |-> wrr, expected_rook |-> "R"]
    ELSE [king_row |-> 0, king_moved |-> bk, rook_left_moved |-> brl,
          rook_right_moved |-> brr, expected_rook |-> "r"]

CastleWings(row, col, b, white_on_bottom, player_color, cs) ==
    IF <<row, col>> # <<cs.king_row, 4>> THEN <<>>
    ELSE CastleWing(b, white_on_bottom, player_color, cs.king_row, cs.king_moved,
                    cs.rook_left_moved, 0, cs.expected_rook, 1..3,
                    << <<cs.king_row, 3>>, <<cs.king_row, 2>> >>, <<cs.king_row, 2>>)
         \o
         CastleWing(b, white_on_bottom, player_color, cs.king_row, cs.king_moved,
                    cs.rook_right_moved, 7, cs.expected_rook, 5..6,
                    << <<cs.king_row, 5>>, <<cs.king_row, 6>> >>, <<cs.king_row, 6>>)

calculate_castling_moves(row, col, piece, b, white_on_bottom, white_king_moved, white_rook_left_moved, white_rook_right_moved, black_king_moved, black_rook_left_moved, black_rook_right_moved) ==
    CastleWings(row, col, b, white_on_bottom,
                IF isupper(piece) THEN "white" ELSE "black",
                CastleSetup(IF isupper(piece) THEN "white" ELSE "black",
                            white_king_moved, white_rook_left_moved, white_rook_right_moved,
                            black_king_moved, black_rook_left_moved, black_rook_right_moved))

(***************************************************************************)
(* engine/search.py: SearchState, Move, generate_legal_moves               *)
(***************************************************************************)
SearchState(wob, wk, wrl, wrr, bk, brl, brr, lpm) ==
    [white_on_bottom |-> wob,
     white_king_moved |-> wk, white_rook_left_moved |-> wrl, white_rook_right_moved |-> wrr,
     black_king_moved |-> bk, black_rook_left_moved |-> brl, black_rook_right_moved |-> brr,
     last_pawn_move |-> lpm]

Move(start, end, promotion, is_castle, is_en_passant) ==
    [start |-> start, end |-> end, promotion |-> promotion,
     is_castle |-> is_castle, is_en_passant |-> is_en_passant]

side_str(colour) == IF colour = 1 THEN "white" ELSE "black"

PromotionChoices == <<"q", "r", "b", "n">>

\* The moves one destination of one piece contributes (lines 76-97).
MovesForDest(start, end, ch, b, side_to_move, st) ==
    IF leaves_king_in_check(start, end, b, side_to_move, st.white_on_bottom,
                            st.last_pawn_move)
    THEN <<>>
    ELSE IF /\ ch \in {"P", "p"}
            /\ b[end[1]][end[2]] = "."
            /\ Abs(end[2] - start[2]) = 1
            /\ Abs(end[1] - start[1]) = 1
            /\ ~en_passant(start, end, ch, b, st.last_pawn_move, st.white_on_bottom)
    THEN <<>>
    ELSE IF is_promotion_move(start, end, b, st.white_on_bottom)
    THEN [i \in 1..4 |->
            Move(start, end, get_promoted_piece(PromotionChoices[i], isupper(ch)),
                 FALSE, FALSE)]
    ELSE <<Move(start, end, NoPiece, FALSE,
                /\ ch \in {"P", "p"}
                /\ b[end[1]][end[2]] = "."
                /\ Abs(end[2] - start[2]) = 1
                /\ Abs(end[1] - start[1]) = 1)>>

\* The loop `for (er, ec) in dests` of one piece.  Every call of the legality
\* filter leaves the board as it found it (leaves_king_in_check_board), so each
\* iteration runs on b.
RECURSIVE DestsLoop(_, _, _, _, _, _, _)
DestsLoop(start, ch, dests, i, b, side_to_move, st) ==
    IF i > Len(dests) THEN <<>>
    ELSE MovesForDest(start, dests[i], ch, b, side_to_move, st)
         \o DestsLoop(start, ch, dests, i + 1, b, side_to_move, st)

\* 1) Normal piece moves: the scan of the squares from the k-th on.
RECURSIVE PieceMovesLoop(_, _, _, _)
PieceMovesLoop(k, b, side_to_move, st) ==
    IF k > 63 THEN <<>>
    ELSE (IF \/ side_to_move = "white" /\ isupper(b[k \div 8][k % 8])
             \/ side_to_move = "black" /\ islower(b[k \div 8][k % 8])
          THEN DestsLoop(SquareAt(k), b[k \div 8][k % 8],
                         calculate_valid_moves(SquareAt(k), b, st.white_on_bottom,
                                               st.last_pawn_move),
                         1, b, side_to_move, st)
          ELSE <<>>)
         \o PieceMovesLoop(k + 1, b, side_to_move, st)

\* The loop `for (er, ec) in castles` of one king.
RECURSIVE CastlesLoop(_, _, _, _, _, _)
CastlesLoop(start, castles, i, b, side_to_move, st) ==
    IF i > Len(castles) THEN <<>>
    ELSE Opt(~leaves_king_in_check(start, castles[i], b, side_to_move,
                                   st.white_on_bottom, st.last_pawn_move),
             Move(start, castles[i], NoPiece, TRUE, FALSE))
         \o CastlesLoop(start, castles, i + 1, b, side_to_move, st)

\* 2) Castling moves: the scan of the squares from the k-th on.
RECURSIVE CastleMovesLoop(_, _, _, _)
CastleMovesLoop(k, b, side_to_move, st) ==
    IF k > 63 THEN <<>>
    ELSE (IF \/ side_to_move = "white" /\ b[k \div 8][k % 8] = "K"
             \/ side_to_move = "black" /\ b[k \div 8][k % 8] = "k"
          THEN CastlesLoop(SquareAt(k),
                           calculate_castling_moves(k \div 8, k % 8, b[k \div 8][k % 8], b,
                               st.white_on_bottom,
                               st.white_king_moved, st.white_rook_left_moved,
                               st.white_rook_right_moved,
                               st.black_king_moved, st.black_rook_left_moved,
                               st.black_rook_right_moved),
                           1, b, side_to_move, st)
          ELSE <<>>)
         \o CastleMovesLoop(k + 1, b, side_to_move, st)

generate_legal_moves(b, side_to_move, st) ==
    PieceMovesLoop(0, b, side_to_move, st) \o CastleMovesLoop(0, b, side_to_move, st)

(***************************************************************************)
(* engine/search.py: make_move, undo_move                                  *)
(***************************************************************************)
Flags(st) ==
    <<st.white_king_moved, st.white_rook_left_moved, st.white_rook_right_moved,
      st.black_king_moved, st.black_rook_left_moved, st.black_rook_right_moved>>

\* An Undo that forgets where the en-passant victim stood.
UndoWithoutEpSquare(captured, ep_captured_pos, prev_last_pawn_move, prev_flags, moved_piece, start, end, was_en_passant) ==
    [captured |-> captured, ep_captured_pos |-> NoPos,
     prev_last_pawn_move |-> prev_last_pawn_move, prev_flags |-> prev_flags,
     moved_piece |-> moved_piece, start |-> start, end |-> end,
     was_en_passant |-> was_en_passant]

Undo(captured, ep_captured_pos, prev_last_pawn_move, prev_flags, moved_piece, start, end, was_en_passant) ==
    [captured |-> captured, ep_captured_pos |-> ep_captured_pos,
     prev_last_pawn_move |-> prev_last_pawn_move, prev_flags |-> prev_flags,
     moved_piece |-> moved_piece, start |-> start, end |-> end,
     was_en_passant |-> was_en_passant]

\* The rook relocation of a castle (lines 175-181 and 184-190).
CastleRook(b, piece, mv) ==
    LET sc == mv.start[2]
        ec == mv.end[2]
        row == IF piece = "K" THEN 7 ELSE 0
        rook == IF piece = "K" THEN "R" ELSE "r"
    IN  IF ~(piece \in {"K", "k"} /\ mv.is_castle) THEN b
        ELSE IF ec = sc + 2 THEN SetCell(SetCell(b, row, 7, "."), row, 5, rook)
        ELSE IF ec = sc - 2 THEN SetCell(SetCell(b, row, 0, "."), row, 3, rook)
        ELSE b

\* Flags where a white king's move also clears the queen's rook flag.
FlagsAfterClearing(st, piece, start) ==
    IF piece = "K"
    THEN [st EXCEPT !.white_king_moved = TRUE, !.white_rook_left_moved = FALSE]
    ELSE st

\* The castling flags after a move of `piece` from `start` (lines 173-198).
FlagsAfter(st, piece, start) ==
    IF piece = "K" THEN [st EXCEPT !.white_king_moved = TRUE]
    ELSE IF piece = "k" THEN [st EXCEPT !.black_king_moved = TRUE]
    ELSE IF piece = "R" /\ start = <<7, 0>> THEN [st EXCEPT !.white_rook_left_moved = TRUE]
    ELSE IF piece = "R" /\ start = <<7, 7>> THEN [st EXCEPT !.white_rook_right_moved = TRUE]
    ELSE IF piece = "r" /\ start = <<0, 0>> THEN [st EXCEPT !.black_rook_left_moved = TRUE]
    ELSE IF piece = "r" /\ start = <<0, 7>> THEN [st EXCEPT !.black_rook_right_moved = TRUE]
    ELSE st

\* An en-passant square set by every pawn move that does not promote.
LastPawnMoveOfAnyPawn(piece, mv) ==
    IF piece \in {"P", "p"} /\ mv.promotion = NoPiece THEN mv.end ELSE NoPos

\* last_pawn_move after the move (lines 200-207).
LastPawnMoveAfter(piece, mv) ==
    IF /\ piece \in {"P", "p"}
       /\ mv.promotion = NoPiece
       /\ Abs(mv.end[1] - mv.start[1]) = 2
       /\ mv.start[2] = mv.end[2]
    THEN mv.end
    ELSE NoPos

make_move(b, mv, st) ==
    LET sr == mv.start[1]
        sc == mv.start[2]
        er == mv.end[1]
        ec == mv.end[2]
        piece == b[sr][sc]
        b1 == SetCell(b, sr, sc, ".")
        cap_r == er - get_pawn_direction(piece, st.white_on_bottom)
        was_en_passant ==
            /\ mv.is_en_passant
            /\ piece \in {"P", "p"}
            /\ b[er][ec] = "."
            /\ st.last_pawn_move = <<cap_r, ec>>
            /\ b1[cap_r][ec] = (IF piece = "P" THEN "p" ELSE "P")
        captured == IF was_en_passant THEN b1[cap_r][ec] ELSE b[er][ec]
        b2 == IF was_en_passant THEN SetCell(b1, cap_r, ec, ".") ELSE b1
        place_piece == IF mv.promotion # NoPiece THEN mv.promotion ELSE piece
        b3 == SetCell(b2, er, ec, place_piece)
        st1 == FlagsAfter(st, piece, mv.start)
    IN  [board |-> CastleRook(b3, piece, mv),
         st |-> [st1 EXCEPT !.last_pawn_move = LastPawnMoveAfter(piece, mv)],
         undo |-> Undo(captured,
                       IF was_en_passant THEN <<cap_r, ec>> ELSE NoPos,
                       st.last_pawn_move, Flags(st), piece, mv.start, mv.end,
                       was_en_passant)]

undo_move(b, undo, st) ==
    LET sr == undo.start[1]
        sc == undo.start[2]
        er == undo.end[1]
        ec == undo.end[2]
        moved == b[er][ec]
        row == IF moved = "K" THEN 7 ELSE 0
        rook == IF moved = "K" THEN "R" ELSE "r"
        b1 == IF moved \in {"K", "k"} /\ Abs(ec - sc) = 2
              THEN IF ec = sc + 2 THEN SetCell(SetCell(b, row, 5, "."), row, 7, rook)
                   ELSE IF ec = sc - 2 THEN SetCell(SetCell(b, row, 3, "."), row, 0, rook)
                   ELSE b
              ELSE b
        b2 == SetCell(b1, er, ec, IF undo.was_en_passant THEN "." ELSE undo.captured)
        b3 == SetCell(b2, sr, sc, undo.moved_piece)
        b4 == IF undo.ep_captured_pos # NoPos
              THEN SetCell(b3, undo.ep_captured_pos[1], undo.ep_captured_pos[2],
                           undo.captured)
              ELSE b3
    IN  [board |-> b4,
         st |-> [st EXCEPT !.white_king_moved = undo.prev_flags[1],
                           !.white_rook_left_moved = undo.prev_flags[2],
                           !.white_rook_right_moved = undo.prev_flags[3],
                           !.black_king_moved = undo.prev_flags[4],
                           !.black_rook_left_moved = undo.prev_flags[5],
                           !.black_rook_right_moved = undo.prev_flags[6],
                           !.last_pawn_move = undo.prev_last_pawn_move]]

(***************************************************************************)
(* evaluation.py                                                           *)
(***************************************************************************)
PIECE_VALUES(ptype) ==
    CASE ptype = "P" -> 100 [] ptype = "N" -> 320 [] ptype = "B" -> 330
      [] ptype = "R" -> 500 [] ptype = "Q" -> 900 [] ptype = "K" -> 0

\* The tables are indexed from 0 in the source and from 1 here.
PAWN_TABLE ==
    << <<  0,   0,   0,   0,   0,   0,   0,   0>>,
       << 50,  50,  50,  50,  50,  50,  50,  50>>,
       << 10,  10,  20,  30,  30,  20,  10,  10>>,
       <<  5,   5,  10,  25,  25,  10,   5,   5>>,
       <<  0,   0,   0,  20,  20,   0,   0,   0>>,
       <<  5,  -5, -10,   0,   0, -10,  -5,   5>>,
       <<  5,  10,  10, -20, -20,  10,  10,   5>>,
       <<  0,   0,   0,   0,   0,   0,   0,   0>> >>

KNIGHT_TABLE ==
    << <<-50, -40, -30, -30, -30, -30, -40, -50>>,
       <<-40, -20,   0,   5,   5,   0, -20, -40>>,
       <<-30,   5,  10,  15,  15,  10,   5, -30>>,
       <<-30,   0,  15,  20,  20,  15,   0, -30>>,
       <<-30,   5,  15,  20,  20,  15,   5, -30>>,
       <<-30,   0,  10,  15,  15,  10,   0, -30>>,
       <<-40, -20,   0,   0,   0,   0, -20, -40>>,
       <<-50, -40, -30, -30, -30, -30, -40, -50>> >>

BISHOP_TABLE ==
    << <<-20, -10, -10, -10, -10, -10, -10, -20>>,
       <<-10,   5,   0,   0,   0,   0,   5, -10>>,
       <<-10,  10,  10,  10,  10,  10,  10, -10>>,
       <<-10,   0,  10,  10,  10,  10,   0, -10>>,
       <<-10,   5,   5,  10,  10,   5,   5, -10>>,
       <<-10,   0,   5,  10,  10,   5,   0, -10>>,
       <<-10,   0,   0,   0,   0,   0,   0, -10>>,
       <<-20, -10, -10, -10, -10, -10, -10, -20>> >>

ROOK_TABLE ==
    << <<  0,   0,   0,   0,   0,   0,   0,   0>>,
       <<  5,  10,  10,  10,  10,  10,  10,   5>>,
       << -5,   0,   0,   0,   0,   0,   0,  -5>>,
       << -5,   0,   0,   0,   0,   0,   0,  -5>>,
       << -5,   0,   0,   0,   0,   0,   0,  -5>>,
       << -5,   0,   0,   0,   0,   0,   0,  -5>>,
       << -5,   0,   0,   5,   5,   0,   0,  -5>>,
       <<  0,   0,   0,   0,   0,   0,   0,   0>> >>

QUEEN_TABLE ==
    << <<-20, -10, -10,  -5,  -5, -10, -10, -20>>,
       <<-10,   0,   5,   0,   0,   0,   0, -10>>,
       <<-10,   5,   5,   5,   5,   5,   0, -10>>,
       <<  0,   0,   5,   5,   5,   5,   0,  -5>>,
       << -5,   0,   5,   5,   5,   5,   0,  -5>>,
       <<-10,   0,   5,   5,   5,   5,   0, -10>>,
       <<-10,   0,   0,   0,   0,   0,   0, -10>>,
       <<-20, -10, -10,  -5,  -5, -10, -10, -20>> >>

KING_TABLE ==
    << <<-30, -40, -40, -50, -50, -40, -40, -30>>,
       <<-30, -40, -40, -50, -50, -40, -40, -30>>,
       <<-30, -40, -40, -50, -50, -40, -40, -30>>,
       <<-30, -40, -40, -50, -50, -40, -40, -30>>,
       <<-20, -30, -30, -40, -40, -30, -30, -20>>,
       <<-10, -20, -20, -20, -20, -20, -20, -10>>,
       << 20,  20,   0,   0,   0,   0,  20,  20>>,
       << 20,  30,  10,   0,   0,  10,  30,  20>> >>

\* The running total `score += ...` over the squares in scan order.
RECURSIVE SumSquares(_, _)
SumSquares(f, k) == IF k > 63 THEN 0 ELSE f[k] + SumSquares(f, k + 1)

RECURSIVE SumFiles(_, _)
SumFiles(f, k) == IF k > 7 THEN 0 ELSE f[k] + SumFiles(f, k + 1)

material_term(b) ==
    SumSquares([k \in 0..63 |->
        LET ch == b[k \div 8][k % 8]
        IN  IF ch = "." THEN 0
            ELSE IF isupper(ch) THEN PIECE_VALUES(upper(ch))
            ELSE -PIECE_VALUES(upper(ch))], 0)

PieceTable(ptype) ==
    CASE ptype = "P" -> PAWN_TABLE [] ptype = "N" -> KNIGHT_TABLE
      [] ptype = "B" -> BISHOP_TABLE [] ptype = "R" -> ROOK_TABLE
      [] ptype = "Q" -> QUEEN_TABLE [] ptype = "K" -> KING_TABLE

\* A piece-square term that reads Black's squares without the vertical mirror.
piece_square_term_unmirrored(b) ==
    SumSquares([k \in 0..63 |->
        LET r == k \div 8
            c == k % 8
            ch == b[r][c]
        IN  IF ch = "." THEN 0
            ELSE IF isupper(ch) THEN PieceTable(upper(ch))[r + 1][c + 1]
            ELSE -PieceTable(upper(ch))[r + 1][c + 1]], 0)

piece_square_term(b) ==
    SumSquares([k \in 0..63 |->
        LET r == k \div 8
            c == k % 8
            ch == b[r][c]
        IN  IF ch = "." THEN 0
            ELSE IF isupper(ch) THEN PieceTable(upper(ch))[r + 1][c + 1]
            ELSE -PieceTable(upper(ch))[(7 - r) + 1][c + 1]], 0)

doubled_pawn_penalty(b) ==
    SumFiles([file \in Rows |->
        LET white_count == Cardinality({rank \in Rows : b[rank][file] = "P"})
            black_count == Cardinality({rank \in Rows : b[rank][file] = "p"})
        IN  (IF white_count > 1 THEN -10 * (white_count - 1) ELSE 0)
            + (IF black_count > 1 THEN 10 * (black_count - 1) ELSE 0)], 0)

isolated_pawn_penalty(b) ==
    SumSquares([k \in 0..63 |->
        LET r == k \div 8
            c == k % 8
            ch == b[r][c]
            has_neighbor ==
                \E dc \in {-1, 1} : /\ InRange(c + dc)
                                    /\ \E rr \in Rows : b[rr][c + dc] = ch
        IN  IF ch \notin {"P", "p"} \/ has_neighbor THEN 0
            ELSE IF ch = "P" THEN -15 ELSE 15], 0)

is_white_passed(b, r, c) ==
    \A rr \in 0..(r - 1) : \A dc \in {-1, 0, 1} :
        InRange(c + dc) => b[rr][c + dc] # "p"

is_black_passed(b, r, c) ==
    \A rr \in (r + 1)..7 : \A dc \in {-1, 0, 1} :
        InRange(c + dc) => b[rr][c + dc] # "P"

passed_pawn_bonus(b) ==
    SumSquares([k \in 0..63 |->
        LET r == k \div 8
            c == k % 8
            ch == b[r][c]
        IN  IF ch = "P" /\ is_white_passed(b, r, c) THEN (7 - r) * 10
            ELSE IF ch = "p" /\ is_black_passed(b, r, c) THEN -(r * 10)
            ELSE 0], 0)

pawn_structure_term(b) ==
    doubled_pawn_penalty(b) + isolated_pawn_penalty(b) + passed_pawn_bonus(b)

queens_on_board(b) == \E r \in Rows, c \in Rows : b[r][c] \in {"Q", "q"}

\* find_kings keeps the last king of each colour in scan order; NoPos when none.
find_kings(b) ==
    LET last(king) ==
            LET ks == {k \in 0..63 : b[k \div 8][k % 8] = king}
            IN  IF ks = {} THEN NoPos
                ELSE SquareAt(CHOOSE k \in ks : \A j \in ks : j <= k)
    IN  <<last("K"), last("k")>>

king_safety_term(b) ==
    IF queens_on_board(b)
    THEN (IF find_kings(b)[1] = <<7, 4>> THEN -25 ELSE 0)
         + (IF find_kings(b)[2] = <<0, 4>> THEN 25 ELSE 0)
    ELSE 0

evaluate(b, side_to_move) ==
    material_term(b) + piece_square_term(b) + pawn_structure_term(b) + king_safety_term(b)

(***************************************************************************)
(* engine/search.py: move ordering                                         *)
(***************************************************************************)
INF == 1000000000

_move_order_key(b, mv) ==
    (IF b[mv.end[1]][mv.end[2]] # "." THEN 1000 ELSE 0)
    + (IF mv.is_en_passant THEN 1000 ELSE 0)
    + (IF mv.promotion # NoPiece THEN 900 ELSE 0)

\* list.sort(key, reverse=True) is stable: equal keys keep their order.  Insert x
\* after every element of the sorted list whose key is not smaller.
RECURSIVE InsertByKey(_, _, _, _)
InsertByKey(b, sorted, x, i) ==
    IF i > Len(sorted) THEN Append(sorted, x)
    ELSE IF _move_order_key(b, sorted[i]) < _move_order_key(b, x)
    THEN SubSeq(sorted, 1, i - 1) \o <<x>> \o SubSeq(sorted, i, Len(sorted))
    ELSE InsertByKey(b, sorted, x, i + 1)

RECURSIVE SortFrom(_, _, _, _)
SortFrom(b, moves, i, sorted) ==
    IF i > Len(moves) THEN sorted
    ELSE SortFrom(b, moves, i + 1, InsertByKey(b, sorted, moves[i], 1))

\* The list left in generation order.
MovesUnsorted(b, moves) == moves

SortMoves(b, moves) == SortFrom(b, moves, 1, <<>>)

(***************************************************************************)
(* Positions the engine is run on.  Each is a position of a game played    *)
(* from the standard start, with the flags that game leaves.  `rights` is  *)
(* the history of the game that the flags stand for: "K"/"Q" (White) and   *)
(* "k"/"q" (Black) name a wing whose king and corner rook have not moved   *)
(* and whose corner rook has not been captured.                            *)
(***************************************************************************)
Position(rows, side, s, rights) ==
    [board |-> B(rows), side |-> side, st |-> s, rights |-> rights]

Row(a, b, c, d, e, f, g, h) == <<a, b, c, d, e, f, g, h>>
EmptyRow == Row(".", ".", ".", ".", ".", ".", ".", ".")

KingsMoved == SearchState(TRUE, TRUE, TRUE, TRUE, TRUE, TRUE, TRUE, NoPos)

\* White can push e2-e4 past the black pawn on d4, which may then take en passant.
EnPassantPosition ==
    Position(<<Row(".", ".", ".", ".", ".", ".", ".", "k"),
               EmptyRow, EmptyRow, EmptyRow,
               Row(".", ".", ".", "p", ".", ".", ".", "."),
               EmptyRow,
               Row(".", ".", ".", ".", "P", ".", ".", "."),
               Row(".", ".", ".", ".", ".", ".", ".", "K")>>,
             "white", KingsMoved, {})

\* As above with the black king on f5: e2-e4 gives check, and taking the pawn
\* en passant is one of the ways out of it.
EnPassantCheckPosition ==
    Position(<<EmptyRow, EmptyRow, EmptyRow,
               Row(".", ".", ".", ".", ".", "k", ".", "."),
               Row(".", ".", ".", "p", ".", ".", ".", "."),
               EmptyRow,
               Row(".", ".", ".", ".", "P", ".", ".", "."),
               Row(".", ".", ".", ".", ".", ".", ".", "K")>>,
             "white", KingsMoved, {})

\* Black can push d7-d5 beside the white pawn on e5; the two pawns are all that
\* stands between the rook on h5 and the white king on a5.
EnPassantPinPosition ==
    Position(<<Row(".", ".", ".", ".", ".", ".", ".", "k"),
               Row(".", ".", ".", "p", ".", ".", ".", "."),
               Row(".", ".", ".", ".", ".", ".", ".", "p"),
               Row("K", ".", ".", ".", "P", ".", ".", "r"),
               Row(".", ".", ".", ".", ".", ".", ".", "P"),
               EmptyRow, EmptyRow, EmptyRow>>,
             "black", KingsMoved, {})

\* The same after d7-d5: White, to move, may take the pawn on d5 en passant.
EnPassantExposedPosition ==
    Position(<<Row(".", ".", ".", ".", ".", ".", ".", "k"),
               EmptyRow,
               Row(".", ".", ".", ".", ".", ".", ".", "p"),
               Row("K", ".", ".", "p", "P", ".", ".", "r"),
               Row(".", ".", ".", ".", ".", ".", ".", "P"),
               EmptyRow, EmptyRow, EmptyRow>>,
             "white", SearchState(TRUE, TRUE, TRUE, TRUE, TRUE, TRUE, TRUE, <<3, 3>>), {})

\* The white king and king's rook have not moved; the black pawn on e2 attacks f1.
CastleThroughAttackPosition ==
    Position(<<Row("k", ".", ".", ".", ".", ".", ".", "."),
               EmptyRow, EmptyRow, EmptyRow, EmptyRow, EmptyRow,
               Row(".", ".", ".", ".", "p", ".", ".", "P"),
               Row(".", ".", ".", ".", "K", ".", ".", "R")>>,
             "white", SearchState(TRUE, FALSE, TRUE, FALSE, TRUE, TRUE, TRUE, NoPos), {"K"})

\* A black knight has just taken the rook on h1, which never moved; the rook on h2
\* came from a1.  The white king has not moved.
CapturedRookPosition ==
    Position(<<Row("k", ".", ".", ".", ".", ".", ".", "."),
               EmptyRow, EmptyRow, EmptyRow, EmptyRow,
               Row(".", ".", ".", ".", ".", ".", ".", "P"),
               Row(".", ".", ".", ".", ".", ".", "P", "R"),
               Row(".", ".", ".", ".", "K", ".", ".", "n")>>,
             "white", SearchState(TRUE, FALSE, TRUE, FALSE, TRUE, TRUE, TRUE, NoPos), {})

\* White can promote on g8 or castle long; Black can castle long.
PromotionCastlePosition ==
    Position(<<Row("r", ".", ".", ".", "k", ".", ".", "."),
               Row(".", ".", ".", ".", ".", ".", "P", "."),
               EmptyRow, EmptyRow, EmptyRow, EmptyRow, EmptyRow,
               Row("R", ".", ".", ".", "K", ".", ".", ".")>>,
             "white", SearchState(TRUE, FALSE, FALSE, TRUE, FALSE, FALSE, TRUE, NoPos),
             {"Q", "q"})

\* The standard initial position with a fresh SearchState.
StandardPosition ==
    Position(<<Row("r", "n", "b", "q", "k", "b", "n", "r"),
               Row("p", "p", "p", "p", "p", "p", "p", "p"),
               EmptyRow, EmptyRow, EmptyRow, EmptyRow,
               Row("P", "P", "P", "P", "P", "P", "P", "P"),
               Row("R", "N", "B", "Q", "K", "B", "N", "R")>>,
             "white", SearchState(TRUE, FALSE, FALSE, FALSE, FALSE, FALSE, FALSE, NoPos),
             {"K", "Q", "k", "q"})

\* A board without a white king; the black rook looks down the e-file.
KinglessPosition ==
    Position(<<Row(".", ".", ".", ".", "r", ".", ".", "k"),
               Row(".", "p", ".", ".", ".", ".", ".", "."),
               EmptyRow, EmptyRow, EmptyRow, EmptyRow,
               Row("P", ".", ".", ".", ".", ".", ".", "."),
               Row(".", "N", ".", ".", ".", ".", ".", ".")>>,
             "white", KingsMoved, {})

GamePositions ==
    {EnPassantPosition, EnPassantCheckPosition, EnPassantPinPosition,
     CastleThroughAttackPosition, CapturedRookPosition, PromotionCastlePosition,
     KinglessPosition, EnPassantExposedPosition}

\* White, in check, can be mated in one by the bishop or mate in two itself.
MatesPosition ==
    Position(<<Row(".", ".", ".", ".", ".", ".", "k", "."),
               Row(".", ".", ".", ".", "P", "p", ".", "."),
               Row(".", ".", ".", ".", "p", ".", "K", "."),
               Row(".", ".", ".", ".", "b", ".", ".", "P"),
               Row(".", ".", ".", ".", "P", ".", ".", "."),
               EmptyRow, EmptyRow, EmptyRow>>,
             "white", KingsMoved, {})

\* White can promote, mate in two, or stalemate Black.
StalematePosition ==
    Position(<<EmptyRow,
               Row(".", ".", ".", ".", ".", ".", "P", "k"),
               Row(".", ".", ".", ".", ".", ".", ".", "p"),
               Row(".", ".", ".", ".", "P", ".", ".", "K"),
               Row(".", ".", ".", ".", ".", ".", "P", "."),
               EmptyRow, EmptyRow, EmptyRow>>,
             "white", KingsMoved, {})

\* White mates at once with either pawn taking on g7.
MateInOnePosition ==
    Position(<<Row(".", ".", ".", ".", ".", ".", ".", "k"),
               Row(".", ".", ".", ".", ".", "K", "p", "p"),
               Row(".", ".", ".", ".", ".", "P", ".", "P"),
               EmptyRow, EmptyRow, EmptyRow, EmptyRow, EmptyRow>>,
             "white", KingsMoved, {})

\* Black, to move, is stalemated.
NoMovesPosition ==
    Position(<<Row(".", ".", ".", ".", ".", ".", ".", "k"),
               Row(".", ".", ".", ".", ".", ".", ".", "P"),
               Row(".", ".", ".", ".", ".", ".", ".", "K"),
               EmptyRow, EmptyRow, EmptyRow, EmptyRow, EmptyRow>>,
             "black", KingsMoved, {})

\* White may castle king-side; every pawn is blocked and the black king has one square.
CastleSearchPosition ==
    Position(<<Row("k", ".", ".", ".", ".", ".", ".", "."),
               Row("p", ".", ".", ".", ".", ".", ".", "."),
               Row("P", ".", ".", ".", ".", ".", ".", "."),
               EmptyRow, EmptyRow,
               Row(".", ".", ".", ".", ".", ".", ".", "p"),
               Row(".", ".", ".", ".", ".", ".", ".", "P"),
               Row(".", ".", ".", ".", "K", ".", ".", "R")>>,
             "white", SearchState(TRUE, FALSE, TRUE, FALSE, TRUE, TRUE, TRUE, NoPos), {"K"})

\* The white king's steps to a2 and to b2 score the same; Black has one reply.
TiedMovesPosition ==
    Position(<<Row(".", ".", ".", ".", ".", ".", ".", "k"),
               Row(".", ".", ".", ".", ".", ".", ".", "p"),
               Row(".", ".", ".", ".", ".", ".", ".", "P"),
               EmptyRow, EmptyRow,
               Row("K", ".", ".", ".", ".", ".", ".", "."),
               EmptyRow, EmptyRow>>,
             "white", KingsMoved, {})

SearchPositions ==
    {MatesPosition, StalematePosition, MateInOnePosition, NoMovesPosition,
     EnPassantPosition, CastleSearchPosition, TiedMovesPosition}

\* The longest line of moves played, and the deepest search asked for.
MaxPly == 2
MaxDepth == 3

(***************************************************************************)
(* State.  board, st: the caller-owned board and SearchState every         *)
(* operation mutates in place.  side_to_move: whose turn it is.            *)
(* undo_stack: the Undo records of the moves made and not yet undone, each *)
(* with the move, and the board, state and rights it was made on.          *)
(* rights: the wings on which castling has not been lost (history).        *)
(* last: the last operation, its move, and the board and state before the  *)
(* make_move it belongs to.                                                *)
(* pc, frames, call, ret, result: find_best_move and its nega_max          *)
(* recursion, one frame per active call; stats counts what the search did. *)
(***************************************************************************)
VARIABLES board, st, side_to_move, undo_stack, rights, last,
          pc, frames, call, ret, result, stats

vars == <<board, st, side_to_move, undo_stack, rights, last,
          pc, frames, call, ret, result, stats>>

gameVars == <<undo_stack, rights, last>>
searchVars == <<pc, frames, call, ret, result, stats>>

NoMove == Move(NoPos, NoPos, NoPiece, FALSE, FALSE)
NoUndo == Undo(".", NoPos, NoPos, <<FALSE, FALSE, FALSE, FALSE, FALSE, FALSE>>, ".",
               NoPos, NoPos, FALSE)
NoCall == [depth |-> 0, alpha |-> 0, beta |-> 0, colour |-> 0]

Other(side) == IF side = "white" THEN "black" ELSE "white"

InitFrom(positions) ==
    /\ \E p \in positions :
          /\ board = p.board
          /\ st = p.st
          /\ side_to_move = p.side
          /\ rights = p.rights
          /\ last = [op |-> "init", mv |-> NoMove, board |-> p.board, st |-> p.st]
    /\ undo_stack = <<>>
    /\ pc = "idle"
    /\ frames = <<>>
    /\ call = NoCall
    /\ ret = 0
    /\ result = NoMove
    /\ stats = [calls |-> 0, cutoffs |-> 0, mates |-> {}, made |-> 0, undone |-> 0]

Init == InitFrom(GamePositions)

\* The wings still castleable after `piece` moved by mv: a king's move loses both,
\* a move from or onto a corner loses that corner's.
RightsAfter(r, piece, mv) ==
    (r \ (IF piece = "K" THEN {"K", "Q"} ELSE IF piece = "k" THEN {"k", "q"} ELSE {}))
      \ ({"K" : x \in {<<7, 7>>} \cap {mv.start, mv.end}}
         \cup {"Q" : x \in {<<7, 0>>} \cap {mv.start, mv.end}}
         \cup {"k" : x \in {<<0, 7>>} \cap {mv.start, mv.end}}
         \cup {"q" : x \in {<<0, 0>>} \cap {mv.start, mv.end}})

\* The caller plays one of the generated moves with make_move.
MakeMove ==
    /\ Len(undo_stack) < MaxPly
    /\ \E moves \in {generate_legal_moves(board, side_to_move, st)} :
       \E i \in 1..Len(moves) :
       \E r \in {make_move(board, moves[i], st)} :
          /\ board' = r.board
          /\ st' = r.st
          /\ side_to_move' = Other(side_to_move)
          /\ undo_stack' = Append(undo_stack,
                 [undo |-> r.undo, mv |-> moves[i], board |-> board, st |-> st,
                  rights |-> rights])
          /\ rights' = RightsAfter(rights, r.undo.moved_piece, moves[i])
          /\ last' = [op |-> "make", mv |-> moves[i], board |-> board, st |-> st]
    /\ UNCHANGED searchVars

\* The caller takes the last move back with undo_move.
UndoMove ==
    /\ undo_stack # <<>>
    /\ \E top \in {undo_stack[Len(undo_stack)]} :
       \E u \in {undo_move(board, top.undo, st)} :
          /\ board' = u.board
          /\ st' = u.st
          /\ side_to_move' = Other(side_to_move)
          /\ undo_stack' = SubSeq(undo_stack, 1, Len(undo_stack) - 1)
          /\ rights' = top.rights
          /\ last' = [op |-> "undo", mv |-> top.mv, board |-> top.board, st |-> top.st]
    /\ UNCHANGED searchVars

Next == MakeMove \/ UndoMove

Spec == Init /\ [][Next]_vars

\* The game again, from the positions used for the properties of move
\* generation: a pawn one step from promotion with a capture beside it stands in
\* for the promotion position with its open rook files.
PawnPromotesPosition ==
    Position(<<Row("n", ".", ".", ".", ".", ".", ".", "k"),
               Row(".", "P", ".", ".", ".", ".", ".", "p"),
               Row(".", ".", ".", ".", ".", ".", ".", "P"),
               EmptyRow, EmptyRow,
               Row("K", ".", ".", ".", ".", ".", ".", "."),
               EmptyRow, EmptyRow>>,
             "white", KingsMoved, {})

GenerationPositions ==
    (GamePositions \ {PromotionCastlePosition}) \cup {PawnPromotesPosition}

GenerationInit == InitFrom(GenerationPositions)

GenerationSpec == GenerationInit /\ [][Next]_vars

\* The promotion pieces a caller can put into a Move.
PromotionPieces == {"Q", "R", "B", "N", "q", "r", "b", "n"}

\* The caller calls make_move, on the position it started from, with a generated
\* move into which it has written a promotion piece of its own choosing.
MakeRequested ==
    /\ undo_stack = <<>>
    /\ \E moves \in {generate_legal_moves(board, side_to_move, st)} :
       \E i \in 1..Len(moves) :
       \E p \in PromotionPieces :
       \E mv \in {[moves[i] EXCEPT !.promotion = p]} :
       \E r \in {make_move(board, mv, st)} :
          /\ board' = r.board
          /\ st' = r.st
          /\ side_to_move' = Other(side_to_move)
          /\ undo_stack' = Append(undo_stack,
                 [undo |-> r.undo, mv |-> mv, board |-> board, st |-> st,
                  rights |-> rights])
          /\ rights' = RightsAfter(rights, r.undo.moved_piece, mv)
          /\ last' = [op |-> "request", mv |-> mv, board |-> board, st |-> st]
    /\ UNCHANGED searchVars

RequestNext == MakeRequested \/ UndoMove

RequestInit == InitFrom(GamePositions \cup {StandardPosition})

RequestSpec == RequestInit /\ [][RequestNext]_vars

\* The same game played from the standard initial position.
OpeningInit == InitFrom({StandardPosition})

OpeningSpec == OpeningInit /\ [][Next]_vars

(***************************************************************************)
(* engine/search.py: nega_max and find_best_move, one frame per active     *)
(* call.  frames[1] is find_best_move's; the others are nega_max's.        *)
(* call is the nega_max call being entered and, once it has returned, the  *)
(* call that returned ret.                                                 *)
(***************************************************************************)
Call(depth, alpha, beta, colour) ==
    [depth |-> depth, alpha |-> alpha, beta |-> beta, colour |-> colour]

\* Locals whose running value starts at +INF.
FrameFromAbove(moves, c) ==
    [moves |-> moves, i |-> 1, call |-> c, alpha |-> c.alpha, value |-> INF,
     undo |-> NoUndo, slot |-> 0, best |-> NoMove]

\* The locals of one call: the move list, the index of the move being tried, the
\* arguments, the running alpha and value (best_score at the root), the Undo of
\* the move being tried and best_move (root only).
Frame(moves, c) ==
    [moves |-> moves, i |-> 1, call |-> c, alpha |-> c.alpha, value |-> -INF,
     undo |-> NoUndo, slot |-> 0, best |-> NoMove]

Top == frames[Len(frames)]
Pop == SubSeq(frames, 1, Len(frames) - 1)
SetTop(f) == [frames EXCEPT ![Len(frames)] = f]

\* The tests in the other order: depth 0 before the missing moves.
NodeKindDepthFirst(moves, depth) ==
    IF depth = 0 THEN "leaf"
    ELSE IF moves = <<>> THEN "terminal"
    ELSE "expand"

\* A depth test that lets the recursion go one ply below depth 0.
NodeKindBelowZero(moves, depth) ==
    IF moves = <<>> THEN "terminal"
    ELSE IF depth < 0 THEN "leaf"
    ELSE "expand"

\* nega_max's order of tests: no legal moves first, then depth 0, then the loop.
NodeKind(moves, depth) ==
    IF moves = <<>> THEN "terminal"
    ELSE IF depth = 0 THEN "leaf"
    ELSE "expand"

\* A terminal rule that scores a stalemate by the static evaluation.
TerminalValueByMaterial(b, depth, colour, in_check) ==
    IF in_check THEN -INF + 1 ELSE colour * evaluate(b, "w")

\* A terminal rule whose mated score depends on the remaining depth.
TerminalValueByDepth(b, depth, colour, in_check) ==
    IF in_check THEN -INF + 1 + (MaxDepth - depth) ELSE 0

\* The terminal rule (lines 297-302).
TerminalValue(b, depth, colour, in_check) ==
    IF in_check THEN -INF + 1 ELSE 0

\* The leaf rule (lines 305-308).
LeafValue(b, colour) == colour * evaluate(b, "w")

\* A child window that is not swapped.
ChildWindowUnswapped(alpha, beta) == [alpha |-> -alpha, beta |-> -beta]

\* The window nega_max hands to a child.
ChildWindow(alpha, beta) == [alpha |-> -beta, beta |-> -alpha]

\* A test that finds no mate.
IsMateNever(opp_moves, in_check) == FALSE

\* find_best_move's test of one root move (lines 349-350).
IsMate(opp_moves, in_check) == opp_moves = <<>> /\ in_check

\* The Undo records make_move has returned and undo_move has not yet been given,
\* oldest first: one more after `undo = make_move(board, mv, st)`, and without
\* the one at `slot` after `undo_move(board, undo, st)` of the record kept there.
Outstanding(mv, undo) ==
    Append(undo_stack, [undo |-> undo, mv |-> mv, board |-> board, st |-> st,
                        rights |-> rights])

Consumed(slot) == SubSeq(undo_stack, 1, slot - 1) \o SubSeq(undo_stack, slot + 1, Len(undo_stack))

\* find_best_move on a position without legal moves returns None.
FindBestMoveEmpty ==
    /\ pc = "idle"
    /\ generate_legal_moves(board, side_to_move, st) = <<>>
    /\ result' = NoMove
    /\ pc' = "done"
    /\ UNCHANGED <<board, st, side_to_move, gameVars, frames, call, ret, stats>>

\* find_best_move(board, side_to_move, depth, st) is called and generates the
\* root moves.
FindBestMoveStart ==
    /\ pc = "idle"
    /\ \E depth \in 1..MaxDepth :
       \E moves \in {generate_legal_moves(board, side_to_move, st)} :
          /\ moves # <<>>
          /\ frames' = <<Frame(moves, Call(depth, -INF, INF,
                                           IF side_to_move = "white" THEN 1 ELSE -1))>>
    /\ pc' = "scan"
    /\ UNCHANGED <<board, st, side_to_move, gameVars, call, ret, result, stats>>

\* An iteration of the mate-in-one loop that leaves the move on the board.
ScanProbeWithoutUndo(b, mv, state, opponent) ==
    LET made == make_move(b, mv, state)
    IN  [is_mate |-> IsMate(generate_legal_moves(made.board, opponent, made.st),
                            is_in_check(opponent, made.board, made.st.white_on_bottom)),
         board |-> made.board, st |-> made.st]

\* The board and state one iteration of the mate-in-one loop leaves, and its
\* is_mate.
ScanProbe(b, mv, state, opponent) ==
    LET made == make_move(b, mv, state)
        undone == undo_move(made.board, made.undo, made.st)
    IN  [is_mate |-> IsMate(generate_legal_moves(made.board, opponent, made.st),
                            is_in_check(opponent, made.board, made.st.white_on_bottom)),
         board |-> undone.board, st |-> undone.st]

\* One iteration of the mate-in-one loop that finds a mate: return mv.
ScanMate ==
    /\ pc = "scan"
    /\ Top.i <= Len(Top.moves)
    /\ \E p \in {ScanProbe(board, Top.moves[Top.i], st, Other(side_to_move))} :
          /\ p.is_mate
          /\ board' = p.board
          /\ st' = p.st
    /\ result' = Top.moves[Top.i]
    /\ stats' = [stats EXCEPT !.made = @ + 1, !.undone = @ + 1]
    /\ pc' = "done"
    /\ UNCHANGED <<side_to_move, gameVars, frames, call, ret>>

\* One iteration of the mate-in-one loop that finds none.
ScanNext ==
    /\ pc = "scan"
    /\ Top.i <= Len(Top.moves)
    /\ \E p \in {ScanProbe(board, Top.moves[Top.i], st, Other(side_to_move))} :
          /\ ~p.is_mate
          /\ board' = p.board
          /\ st' = p.st
    /\ frames' = SetTop([Top EXCEPT !.i = @ + 1])
    /\ stats' = [stats EXCEPT !.made = @ + 1, !.undone = @ + 1]
    /\ UNCHANGED <<side_to_move, gameVars, pc, call, ret, result>>

\* The mate-in-one loop is over: sort the root moves.
ScanSort ==
    /\ pc = "scan"
    /\ Top.i > Len(Top.moves)
    /\ frames' = SetTop([Top EXCEPT !.moves = SortMoves(board, @), !.i = 1])
    /\ pc' = "root"
    /\ UNCHANGED <<board, st, side_to_move, gameVars, call, ret, result, stats>>

\* The scoring loop makes the next root move and calls nega_max on it.
RootMake ==
    /\ pc = "root"
    /\ Top.i <= Len(Top.moves)
    /\ \E r \in {make_move(board, Top.moves[Top.i], st)} :
          /\ board' = r.board
          /\ st' = r.st
          /\ frames' = SetTop([Top EXCEPT !.undo = r.undo, !.slot = Len(undo_stack) + 1])
          /\ undo_stack' = Outstanding(Top.moves[Top.i], r.undo)
    /\ call' = Call(Top.call.depth - 1, -INF, INF, -Top.call.colour)
    /\ stats' = [stats EXCEPT !.made = @ + 1]
    /\ pc' = "call"
    /\ UNCHANGED <<side_to_move, rights, last, ret, result>>

\* A scoring loop that also takes a move whose score equals the best so far.
RootReturnKeepsLast ==
    /\ pc = "return"
    /\ Len(frames) = 1
    /\ \E u \in {undo_move(board, Top.undo, st)} :
          /\ board' = u.board
          /\ st' = u.st
    /\ frames' = SetTop([Top EXCEPT
                           !.value = IF -ret >= @ THEN -ret ELSE @,
                           !.best = IF -ret >= Top.value THEN Top.moves[Top.i] ELSE @,
                           !.i = @ + 1])
    /\ undo_stack' = Consumed(Top.slot)
    /\ stats' = [stats EXCEPT !.undone = @ + 1]
    /\ pc' = "root"
    /\ UNCHANGED <<side_to_move, rights, last, call, ret, result>>

\* nega_max has returned to the scoring loop: undo the move, keep the best.
RootReturn ==
    /\ pc = "return"
    /\ Len(frames) = 1
    /\ \E u \in {undo_move(board, Top.undo, st)} :
          /\ board' = u.board
          /\ st' = u.st
    /\ frames' = SetTop([Top EXCEPT
                           !.value = IF -ret > @ THEN -ret ELSE @,
                           !.best = IF -ret > Top.value THEN Top.moves[Top.i] ELSE @,
                           !.i = @ + 1])
    /\ undo_stack' = Consumed(Top.slot)
    /\ stats' = [stats EXCEPT !.undone = @ + 1]
    /\ pc' = "root"
    /\ UNCHANGED <<side_to_move, rights, last, call, ret, result>>

\* The scoring loop is over: return best_move.
RootDone ==
    /\ pc = "root"
    /\ Top.i > Len(Top.moves)
    /\ result' = Top.best
    /\ pc' = "done"
    /\ UNCHANGED <<board, st, side_to_move, gameVars, frames, call, ret, stats>>

\* nega_max on a node without legal moves.
NegaMaxTerminal ==
    /\ pc = "call"
    /\ NodeKind(generate_legal_moves(board, side_str(call.colour), st), call.depth)
         = "terminal"
    /\ \E in_check \in {is_in_check(side_str(call.colour), board, st.white_on_bottom)} :
       \E v \in {TerminalValue(board, call.depth, call.colour, in_check)} :
          /\ ret' = v
          /\ stats' = [stats EXCEPT
                         !.calls = @ + 1,
                         !.mates = IF in_check THEN @ \cup {<<Len(frames), v>>} ELSE @]
    /\ pc' = "return"
    /\ UNCHANGED <<board, st, side_to_move, gameVars, frames, call, result>>

\* nega_max at depth 0 on a node with legal moves.
NegaMaxLeaf ==
    /\ pc = "call"
    /\ NodeKind(generate_legal_moves(board, side_str(call.colour), st), call.depth)
         = "leaf"
    /\ \E value \in {LeafValue(board, call.colour)} : ret' = value
    /\ stats' = [stats EXCEPT !.calls = @ + 1]
    /\ pc' = "return"
    /\ UNCHANGED <<board, st, side_to_move, gameVars, frames, call, result>>

\* nega_max sorts the moves and enters its loop.
NegaMaxExpand ==
    /\ pc = "call"
    /\ \E moves \in {generate_legal_moves(board, side_str(call.colour), st)} :
          /\ NodeKind(moves, call.depth) = "expand"
          /\ frames' = Append(frames, Frame(SortMoves(board, moves), call))
    /\ stats' = [stats EXCEPT !.calls = @ + 1]
    /\ pc' = "loop"
    /\ UNCHANGED <<board, st, side_to_move, gameVars, call, ret, result>>

\* The loop makes the next move and calls nega_max on it.
NegaMaxMake ==
    /\ pc = "loop"
    /\ Top.i <= Len(Top.moves)
    /\ \E r \in {make_move(board, Top.moves[Top.i], st)} :
          /\ board' = r.board
          /\ st' = r.st
          /\ frames' = SetTop([Top EXCEPT !.undo = r.undo, !.slot = Len(undo_stack) + 1])
          /\ undo_stack' = Outstanding(Top.moves[Top.i], r.undo)
    /\ \E w \in {ChildWindow(Top.alpha, Top.call.beta)} :
          call' = Call(Top.call.depth - 1, w.alpha, w.beta, -Top.call.colour)
    /\ stats' = [stats EXCEPT !.made = @ + 1]
    /\ pc' = "call"
    /\ UNCHANGED <<side_to_move, rights, last, ret, result>>

\* The value and alpha after a child has returned `score`.
Raised(f, score) ==
    LET value == IF score > f.value THEN score ELSE f.value
    IN  [value |-> value, alpha |-> IF value > f.alpha THEN value ELSE f.alpha]

\* A child has returned and there is no cutoff: undo the move and go on.
NegaMaxContinue ==
    /\ pc = "return"
    /\ Len(frames) > 1
    /\ \E u \in {undo_move(board, Top.undo, st)} :
          /\ board' = u.board
          /\ st' = u.st
    /\ \E n \in {Raised(Top, -ret)} :
          /\ n.alpha < Top.call.beta
          /\ frames' = SetTop([Top EXCEPT !.value = n.value, !.alpha = n.alpha,
                                          !.i = @ + 1])
    /\ undo_stack' = Consumed(Top.slot)
    /\ stats' = [stats EXCEPT !.undone = @ + 1]
    /\ pc' = "loop"
    /\ UNCHANGED <<side_to_move, rights, last, call, ret, result>>

\* A cutoff that breaks out of the loop before undo_move.
NegaMaxCutoffBeforeUndo ==
    /\ pc = "return"
    /\ Len(frames) > 1
    /\ \E n \in {Raised(Top, -ret)} :
          /\ n.alpha >= Top.call.beta
          /\ ret' = n.value
    /\ call' = Top.call
    /\ frames' = Pop
    /\ stats' = [stats EXCEPT !.cutoffs = @ + 1]
    /\ UNCHANGED <<board, st, side_to_move, gameVars, pc, result>>

\* A child has returned and alpha >= beta: undo the move, break and return value.
NegaMaxCutoff ==
    /\ pc = "return"
    /\ Len(frames) > 1
    /\ \E u \in {undo_move(board, Top.undo, st)} :
          /\ board' = u.board
          /\ st' = u.st
    /\ \E n \in {Raised(Top, -ret)} :
          /\ n.alpha >= Top.call.beta
          /\ ret' = n.value
    /\ call' = Top.call
    /\ frames' = Pop
    /\ undo_stack' = Consumed(Top.slot)
    /\ stats' = [stats EXCEPT !.cutoffs = @ + 1, !.undone = @ + 1]
    /\ UNCHANGED <<side_to_move, rights, last, pc, result>>

\* The loop has tried every move: return value.
NegaMaxFinish ==
    /\ pc = "loop"
    /\ Top.i > Len(Top.moves)
    /\ ret' = Top.value
    /\ call' = Top.call
    /\ frames' = Pop
    /\ pc' = "return"
    /\ UNCHANGED <<board, st, side_to_move, gameVars, result, stats>>

SearchNext ==
    \/ FindBestMoveEmpty
    \/ FindBestMoveStart
    \/ ScanMate
    \/ ScanNext
    \/ ScanSort
    \/ RootMake
    \/ RootReturn
    \/ RootDone
    \/ NegaMaxTerminal
    \/ NegaMaxLeaf
    \/ NegaMaxExpand
    \/ NegaMaxMake
    \/ NegaMaxContinue
    \/ NegaMaxCutoff
    \/ NegaMaxFinish

\* The positions searched, each with the display either way up.
OrientedPositions ==
    {[p EXCEPT !.st.white_on_bottom = w] : p \in SearchPositions, w \in BOOLEAN}

SearchInit == InitFrom(OrientedPositions)

SearchSpec == SearchInit /\ [][SearchNext]_vars

\* The steps taken inside the two move loops (lines 315-327 and 352-365).
LoopSteps ==
    \/ RootMake
    \/ RootReturn
    \/ RootDone
    \/ NegaMaxMake
    \/ NegaMaxContinue
    \/ NegaMaxCutoff
    \/ NegaMaxFinish

\* The steps that enter a function and generate its moves (lines 291-312 and
\* 337-350).
EntrySteps ==
    \/ FindBestMoveEmpty
    \/ FindBestMoveStart
    \/ ScanMate
    \/ ScanNext
    \/ ScanSort
    \/ NegaMaxTerminal
    \/ NegaMaxLeaf
    \/ NegaMaxExpand

\* find_best_move is one synchronous call: the interpreter keeps executing it
\* until it returns, so no step that can be taken is postponed forever.  The
\* loop steps are weakly fair; so are the entry steps, whose enabling condition
\* is written as the test of pc it amounts to (one of them can be taken exactly
\* when pc is "idle", "scan" or "call").
FairSearchSpec ==
    /\ SearchSpec
    /\ WF_vars(LoopSteps)
    /\ ([]<>(pc \notin {"idle", "scan", "call"}) \/ []<><<EntrySteps>>_vars)

(***************************************************************************)
(* Properties of make_move, undo_move and generate_legal_moves (Spec).     *)
(***************************************************************************)

\* C1: undo_move after make_move of a generated move leaves every board cell, all
\* six castling flags and last_pawn_move as they were before make_move.
C1_UndoRestores ==
    last.op = "undo" => board = last.board /\ st = last.st

\* An en-passant capture has been made and undone.
C1_Witness ==
    /\ last.op = "undo"
    /\ last.mv.is_en_passant
    /\ last.st.last_pawn_move # NoPos
    /\ board = last.board
    /\ st = last.st

\* C2: no generated move leaves the mover's own king attacked: after make_move
\* of a generated move, is_in_check for the mover is false.
C2_NoSelfCheck ==
    last.op = "make" => ~is_in_check(Other(side_to_move), board, st.white_on_bottom)

\* An en-passant capture has been made and the mover's king is attacked.
C2_Witness ==
    /\ last.op = "make"
    /\ last.mv.is_en_passant
    /\ is_in_check(Other(side_to_move), board, st.white_on_bottom)

\* Whether a king of `side` standing on sq instead of its own square would be
\* attacked on b.
KingAttackedOn(b, side, sq, white_on_bottom) ==
    LET king == IF side = "white" THEN "K" ELSE "k"
        at == FindKing(side, b)
    IN  is_in_check(side, SetCell(SetCell(b, at[1], at[2], "."), sq[1], sq[2], king),
                    white_on_bottom)

\* The castle moves generate_legal_moves offers the side to move.
CastlesOffered ==
    LET moves == generate_legal_moves(board, side_to_move, st)
    IN  {moves[i] : i \in {j \in 1..Len(moves) : moves[j].is_castle}}

\* C3: a castle move is offered only if the king is not in check and neither the
\* square the king crosses nor its destination is attacked by an opposing piece.
C3_CastleNotThroughAttack ==
    \A mv \in CastlesOffered :
        /\ ~is_in_check(side_to_move, board, st.white_on_bottom)
        /\ ~KingAttackedOn(board, side_to_move,
                           <<mv.start[1], (mv.start[2] + mv.end[2]) \div 2>>,
                           st.white_on_bottom)
        /\ ~KingAttackedOn(board, side_to_move, mv.end, st.white_on_bottom)

\* Kingside castling is offered although the square the king crosses is attacked.
C3_Witness ==
    \E mv \in CastlesOffered :
        /\ mv.end[2] = 6
        /\ KingAttackedOn(board, side_to_move, <<mv.start[1], 5>>, st.white_on_bottom)

\* The wing a castle move belongs to.
Wing(mv) ==
    IF mv.start[1] = 7
    THEN (IF mv.end[2] = 6 THEN "K" ELSE "Q")
    ELSE (IF mv.end[2] = 6 THEN "k" ELSE "q")

\* C4: a castle move is offered only if the king has never moved and the rook on
\* the corner is that corner's original rook and has never moved.
C4_CastleOnlyWithRights ==
    \A mv \in CastlesOffered : Wing(mv) \in rights

\* Only make_move has been called, and castling is offered with a rook that came
\* to the corner from elsewhere.
C4_Witness ==
    /\ Len(undo_stack) = 2
    /\ \E mv \in CastlesOffered : Wing(mv) \notin rights

\* Whether the move just made was a pawn's two-square advance.
DoublePush ==
    /\ last.op = "make"
    /\ last.board[last.mv.start[1]][last.mv.start[2]] \in {"P", "p"}
    /\ last.mv.start[2] = last.mv.end[2]
    /\ Abs(last.mv.end[1] - last.mv.start[1]) = 2

\* The en-passant captures of the pawn that has just advanced two squares, by the
\* enemy pawns beside it, into the square it skipped.
EnPassantCaptures ==
    LET pawn == IF side_to_move = "white" THEN "P" ELSE "p"
        row == last.mv.end[1]
        col == last.mv.end[2]
    IN  {Move(<<row, c>>, <<(last.mv.start[1] + row) \div 2, col>>, NoPiece, FALSE, TRUE) :
            c \in {x \in {col - 1, col + 1} : InRange(x) /\ board[row][x] = pawn}}

\* C5: after make_move of a pawn's two-square advance the generated list holds
\* every en-passant capture of that pawn that does not expose the capturer's
\* king; after any other move it holds no en-passant capture.
C5_EnPassantNextPlyOnly ==
    LET moves == generate_legal_moves(board, side_to_move, st)
    IN  /\ DoublePush =>
            \A mv \in EnPassantCaptures :
                \/ is_in_check(side_to_move, make_move(board, mv, st).board,
                               st.white_on_bottom)
                \/ Contains(moves, mv)
        /\ last.op = "make" /\ ~DoublePush =>
            \A i \in 1..Len(moves) : ~moves[i].is_en_passant

\* An en-passant capture that would end the check is missing from the list.
C5_Witness ==
    /\ DoublePush
    /\ \E mv \in EnPassantCaptures :
          /\ ~is_in_check(side_to_move, make_move(board, mv, st).board,
                          st.white_on_bottom)
          /\ ~Contains(generate_legal_moves(board, side_to_move, st), mv)

(***************************************************************************)
(* Properties of nega_max and find_best_move (SearchSpec).                 *)
(***************************************************************************)

\* Negamax without pruning and without ordering, with nega_max's terminal and
\* leaf rules.
RECURSIVE MiniMax(_, _, _, _)
MiniMax(b, depth, colour, state) ==
    LET moves == generate_legal_moves(b, side_str(colour), state)
        scores == {-MiniMax(make_move(b, moves[i], state).board, depth - 1, -colour,
                            make_move(b, moves[i], state).st) : i \in 1..Len(moves)}
    IN  IF moves = <<>>
        THEN (IF is_in_check(side_str(colour), b, state.white_on_bottom)
              THEN -INF + 1 ELSE 0)
        ELSE IF depth = 0 THEN colour * evaluate(b, "w")
        ELSE CHOOSE x \in scores : \A y \in scores : y <= x

\* C6: nega_max called with the window (-INF, +INF) returns the score of the
\* unpruned, unordered negamax over the same moves with the same terminal and
\* leaf rules.
C6_AlphaBetaIsMiniMax ==
    pc = "return" /\ Len(frames) = 1 =>
        ret = MiniMax(board, call.depth, call.colour, st)

\* A full-window call of depth 2 or more has returned after cutoffs below it.
C6_Witness ==
    /\ pc = "return"
    /\ Len(frames) = 1
    /\ call.depth >= 2
    /\ call.alpha = -INF /\ call.beta = INF
    /\ stats.cutoffs > 0
    /\ ret = MiniMax(board, call.depth, call.colour, st)

\* The side to move of the call that has just returned has no legal move.
ReturnedWithoutMoves ==
    /\ pc = "return"
    /\ generate_legal_moves(board, side_str(call.colour), st) = <<>>

\* C7: where the side to move has no legal move and is in check, nega_max
\* returns -INF + 1 at every depth, depth 0 included, and for every window.
C7_MateSentinel ==
    /\ ReturnedWithoutMoves
    /\ is_in_check(side_str(call.colour), board, st.white_on_bottom)
    => ret = -INF + 1

\* A mated node reached at depth 0 with a narrowed window returned the sentinel.
C7_Witness ==
    /\ ReturnedWithoutMoves
    /\ is_in_check(side_str(call.colour), board, st.white_on_bottom)
    /\ call.depth = 0
    /\ call.beta < INF
    /\ ret = -INF + 1

\* C8: where the side to move has no legal move and is not in check, nega_max
\* returns 0 at every depth and for every window, whatever the material.
C8_StalemateZero ==
    /\ ReturnedWithoutMoves
    /\ ~is_in_check(side_str(call.colour), board, st.white_on_bottom)
    => ret = 0

\* A stalemate node whose static evaluation is not 0 returned 0.
C8_Witness ==
    /\ ReturnedWithoutMoves
    /\ ~is_in_check(side_str(call.colour), board, st.white_on_bottom)
    /\ evaluate(board, "w") # 0
    /\ material_term(board) # 0
    /\ ret = 0

\* C9 as stated: of two checkmates found in one search, the one at the shallower
\* ply returns the strictly lower score to the mated side.
C9_ShallowerMateScoresLower ==
    \A m1, m2 \in stats.mates : m1[1] < m2[1] => m1[2] < m2[2]

\* C9: the mated score nega_max returns is -INF + 1 at whatever ply the
\* checkmate is found.
C9_MateScoreFixed ==
    \A m \in stats.mates : m[2] = -INF + 1

\* One search has found checkmates at two different plies, with equal scores.
C9_Witness ==
    \E m1, m2 \in stats.mates : m1[1] < m2[1] /\ m1[2] = m2[2]

\* The indices of the root moves after which the opponent has no legal move and
\* is in check.
MatingMoves(moves) ==
    {i \in 1..Len(moves) :
        LET made == make_move(board, moves[i], st)
        IN  /\ generate_legal_moves(made.board, Other(side_to_move), made.st) = <<>>
            /\ is_in_check(Other(side_to_move), made.board, made.st.white_on_bottom)}

\* C10: if some root move mates at once, find_best_move returns the first such
\* move in generation order, for every depth, without calling nega_max.
C10_MateInOneShortcut ==
    pc = "done" =>
        LET moves == generate_legal_moves(board, side_to_move, st)
            mating == MatingMoves(moves)
        IN  mating # {} =>
                /\ result = moves[CHOOSE i \in mating : \A j \in mating : i <= j]
                /\ stats.calls = 0

\* find_best_move of depth 2 or more returned a mating move that is not the
\* first root move.
C10_Witness ==
    /\ pc = "done"
    /\ frames # <<>>
    /\ frames[1].call.depth >= 2
    /\ stats.calls = 0
    /\ \E i \in MatingMoves(generate_legal_moves(board, side_to_move, st)) :
          i > 1 /\ result = generate_legal_moves(board, side_to_move, st)[i]

\* The root moves of the position find_best_move was called on.
RootMovesAtCall == generate_legal_moves(last.board, side_to_move, last.st)

\* C11: find_best_move (depth >= 1) returns None exactly when the side to move has
\* no legal move, and a move it returns is one of the legal moves of the position
\* it was called on.
C11_NoneIffNoMoves ==
    pc = "done" =>
        /\ result = NoMove <=> RootMovesAtCall = <<>>
        /\ result # NoMove => Contains(RootMovesAtCall, result)

\* The scoring loop has finished and returned one of the root moves.
C11_Witness ==
    /\ pc = "done"
    /\ stats.calls > 0
    /\ result # NoMove
    /\ Contains(RootMovesAtCall, result)

\* The indices of the moves of a list made by a piece `ch` of board b.
MovesOf(moves, b, ch) ==
    {i \in 1..Len(moves) : b[moves[i].start[1]][moves[i].start[2]] = ch}

\* C12: on the standard initial position with a fresh SearchState,
\* generate_legal_moves for White returns exactly 20 moves, 16 by pawns and 4 by
\* knights, none of them a castle, a promotion or an en-passant move.
C12_TwentyOpeningMoves ==
    board = StandardPosition.board /\ st = StandardPosition.st =>
        LET moves == generate_legal_moves(board, "white", st)
        IN  /\ Len(moves) = 20
            /\ Cardinality(MovesOf(moves, board, "P")) = 16
            /\ Cardinality(MovesOf(moves, board, "N")) = 4
            /\ \A i \in 1..Len(moves) :
                  /\ ~moves[i].is_castle
                  /\ ~moves[i].is_en_passant
                  /\ moves[i].promotion = NoPiece

\* One of the knight moves generated on the initial position has been made.
C12_Witness ==
    /\ last.op = "make"
    /\ last.board = StandardPosition.board
    /\ last.st = StandardPosition.st
    /\ last.board[last.mv.start[1]][last.mv.start[2]] = "N"
    /\ Len(generate_legal_moves(last.board, "white", last.st)) = 20

(***************************************************************************)
(* Properties of make_move on moves a caller has written (RequestSpec).    *)
(***************************************************************************)

\* The move just requested carries a promotion piece although it is not a pawn's
\* move onto its last rank.
InvalidPromotionRequested ==
    /\ last.op = "request"
    /\ last.mv.promotion # NoPiece
    /\ ~is_promotion_move(last.mv.start, last.mv.end, last.board,
                          last.st.white_on_bottom)

\* C13: when the promotion piece of a move is set but the moving piece is not a
\* pawn reaching its last rank, make_move puts the moving piece itself on the
\* destination square.
C13_InvalidPromotionIgnored ==
    InvalidPromotionRequested =>
        board[last.mv.end[1]][last.mv.end[2]]
            = last.board[last.mv.start[1]][last.mv.start[2]]

\* A knight has been moved with a promotion piece set and the destination holds
\* the promotion piece.
C13_Witness ==
    /\ InvalidPromotionRequested
    /\ last.board[last.mv.start[1]][last.mv.start[2]] \in {"N", "n"}
    /\ board[last.mv.end[1]][last.mv.end[2]] = last.mv.promotion
    /\ last.mv.promotion \notin {"N", "n"}

(***************************************************************************)
(* Further properties of generation, make_move and undo_move (Spec).       *)
(***************************************************************************)

\* The kings of a colour on a board.
KingSquares(b, side) ==
    {sq \in Rows \X Rows : b[sq[1]][sq[2]] = (IF side = "white" THEN "K" ELSE "k")}

\* The start and end squares of the moves of a list.
StartEnds(moves) == {<<moves[i].start, moves[i].end>> : i \in 1..Len(moves)}

\* The pseudolegal moves of a side, less the pawn's diagonal steps onto an empty
\* square that are not en-passant captures: what generation is left with when
\* no move is rejected for the king's safety.
UnfilteredStartEnds(b, side, state) ==
    {<<from, to>> \in (Rows \X Rows) \X (Rows \X Rows) :
        LET ch == b[from[1]][from[2]]
        IN  /\ IF side = "white" THEN isupper(ch) ELSE islower(ch)
            /\ Contains(calculate_valid_moves(from, b, state.white_on_bottom,
                                              state.last_pawn_move), to)
            /\ ~(/\ ch \in {"P", "p"}
                 /\ b[to[1]][to[2]] = "."
                 /\ from[2] # to[2]
                 /\ ~en_passant(from, to, ch, b, state.last_pawn_move,
                                state.white_on_bottom))}

\* C14: on a board without a king of a colour, is_in_check for that colour is
\* false and generate_legal_moves for it returns every move it would return
\* without the test of the king's safety.
C14_NoKingNoCheck ==
    \A side \in {"white", "black"} :
        KingSquares(board, side) = {} =>
            /\ ~is_in_check(side, board, st.white_on_bottom)
            /\ StartEnds(generate_legal_moves(board, side, st))
                 = UnfilteredStartEnds(board, side, st)

\* A board without a white king on which White has moves and a black piece
\* attacks the white king's home square.
C14_Witness ==
    /\ KingSquares(board, "white") = {}
    /\ side_to_move = "white"
    /\ generate_legal_moves(board, "white", st) # <<>>
    /\ \E c \in Rows : board[0][c] = "r" /\ \A r \in 1..7 : board[r][c] = "."
    /\ ~is_in_check("white", board, st.white_on_bottom)

\* The board and the side to move before the first of the moves made and not
\* undone.
RootBoard == IF undo_stack = <<>> THEN board ELSE undo_stack[1].board
RootSide == IF Len(undo_stack) % 2 = 0 THEN side_to_move ELSE Other(side_to_move)

\* The line of moves started from a board with one king of each colour on which
\* the side not to move was not in check.
WellFormedRoot ==
    /\ Cardinality(KingSquares(RootBoard, "white")) = 1
    /\ Cardinality(KingSquares(RootBoard, "black")) = 1
    /\ ~is_in_check(Other(RootSide), RootBoard, st.white_on_bottom)

\* C15: from such a board, every board reached by make_move of generated moves
\* holds exactly one king of each colour.
C15_KingsStay ==
    WellFormedRoot =>
        /\ Cardinality(KingSquares(board, "white")) = 1
        /\ Cardinality(KingSquares(board, "black")) = 1

\* Two generated moves after a well-formed board the white king is gone.
C15_Witness ==
    /\ WellFormedRoot
    /\ Len(undo_stack) = 2
    /\ last.op = "make"
    /\ KingSquares(board, "white") = {}

\* C16: no make_move resets a castling flag that is true; a flag goes back to
\* false only in undo_move, which sets the six flags to the values recorded in
\* the Undo of the matching make_move.
C16_FlagsMonotone ==
    [][/\ last'.op = "make" =>
             \A k \in 1..6 : Flags(st)[k] => Flags(st')[k]
       /\ (\E k \in 1..6 : Flags(st)[k] /\ ~Flags(st')[k]) =>
             /\ last'.op = "undo"
             /\ undo_stack # <<>>
             /\ Flags(st') = undo_stack[Len(undo_stack)].undo.prev_flags]_vars

\* The move of an unmoved white king has been undone, and after a rook flag that
\* was already true stayed true across the make_move.
C16_Witness ==
    /\ last.op = "undo"
    /\ last.board[last.mv.start[1]][last.mv.start[2]] = "K"
    /\ ~last.st.white_king_moved
    /\ last.st.white_rook_left_moved
    /\ make_move(last.board, last.mv, last.st).st.white_king_moved
    /\ make_move(last.board, last.mv, last.st).st.white_rook_left_moved
    /\ ~st.white_king_moved

(***************************************************************************)
(* evaluation.py called on boards that hold the two kings and nothing else  *)
(***************************************************************************)
\* empty_board() of eval_smoke_test.py with 'K' and 'k' written to two squares.
KingsOnlyPosition(wk, bk) ==
    [board |-> [r \in Rows |-> [c \in Rows |->
                   IF <<r, c>> = wk THEN "K" ELSE IF <<r, c>> = bk THEN "k" ELSE "."]],
     side |-> "white", st |-> KingsMoved, rights |-> {}]

Squares == Rows \X Rows

KingsOnlyPositions ==
    {KingsOnlyPosition(wk, bk) : wk \in Squares, bk \in Squares} \ {KingsOnlyPosition(wk, wk) : wk \in Squares}

\* v1 = evaluate(b1, 'w')
Evaluate ==
    /\ pc = "idle"
    /\ ret' = evaluate(board, "w")
    /\ pc' = "done"
    /\ UNCHANGED <<board, st, side_to_move, gameVars, frames, call, result, stats>>

EvalInit == InitFrom(KingsOnlyPositions)

EvalSpec == EvalInit /\ [][Evaluate]_vars

FarRankPawnMoves(b, side, state) ==
    {se \in UnfilteredStartEnds(b, side, state) :
        /\ b[se[1][1]][se[1][2]] = (IF side = "white" THEN "P" ELSE "p")
        /\ se[2][1] = (IF side = "white" THEN 0 ELSE 7)
        /\ ~leaves_king_in_check(se[1], se[2], b, side, state.white_on_bottom,
                                 state.last_pawn_move)}

\* C18: for every pawn move onto the mover's far rank that passes the legality
\* filter, generate_legal_moves holds exactly four moves with that start and
\* end, promoting to queen, rook, bishop and knight of the mover's colour, and
\* none without a promotion piece; no other move carries a promotion piece.
C18_PromotionsExpandToFour ==
    \A moves \in {generate_legal_moves(board, side_to_move, st)} :
    \A far \in {FarRankPawnMoves(board, side_to_move, st)} :
        LET At(se) == {i \in 1..Len(moves) : moves[i].start = se[1] /\ moves[i].end = se[2]}
        IN  /\ \A se \in far :
                  /\ Cardinality(At(se)) = 4
                  /\ {moves[i].promotion : i \in At(se)} =
                        (IF side_to_move = "white" THEN {"Q", "R", "B", "N"}
                         ELSE {"q", "r", "b", "n"})
            /\ \A i \in 1..Len(moves) :
                  moves[i].promotion # NoPiece => <<moves[i].start, moves[i].end>> \in far

\* A white pawn on the seventh rank can step onto row 0 and the list holds its
\* four promotions, after a move has been made and undone.
C18_Witness ==
    /\ last.op = "undo"
    /\ side_to_move = "white"
    /\ FarRankPawnMoves(board, side_to_move, st) # {}
    /\ \E i \in 1..Len(generate_legal_moves(board, side_to_move, st)) :
          generate_legal_moves(board, side_to_move, st)[i].promotion = "N"

(***************************************************************************)
(* engine/search.py: nega_max and find_best_move as functions of their     *)
(* arguments, for comparing two calls.                                     *)
(***************************************************************************)
\* nega_max (lines 289-327) and its loop `for mv in moves` from the i-th move on.
RECURSIVE nega_max(_, _, _, _, _, _)
RECURSIVE NegaMaxLoop(_, _, _, _, _, _, _, _, _)
nega_max(b, depth, alpha, beta, colour, state) ==
    LET moves == generate_legal_moves(b, side_str(colour), state)
    IN  CASE NodeKind(moves, depth) = "terminal" ->
               TerminalValue(b, depth, colour,
                             is_in_check(side_str(colour), b, state.white_on_bottom))
          [] NodeKind(moves, depth) = "leaf" -> LeafValue(b, colour)
          [] OTHER -> NegaMaxLoop(SortMoves(b, moves), 1, b, depth, alpha, beta,
                                  colour, state, -INF)

NegaMaxLoop(moves, i, b, depth, alpha, beta, colour, state, value) ==
    IF i > Len(moves) THEN value
    ELSE LET made == make_move(b, moves[i], state)
             w == ChildWindow(alpha, beta)
             score == -nega_max(made.board, depth - 1, w.alpha, w.beta, -colour, made.st)
             undone == undo_move(made.board, made.undo, made.st)
             n == Raised([value |-> value, alpha |-> alpha], score)
         IN  IF n.alpha >= beta THEN n.value
             ELSE NegaMaxLoop(moves, i + 1, undone.board, depth, n.alpha, beta,
                              colour, undone.st, n.value)

\* The mate-in-one loop of find_best_move (lines 345-352) from the i-th move on:
\* the move it returns, or NoMove with the board and state it leaves.
RECURSIVE ScanLoop(_, _, _, _, _)
ScanLoop(moves, i, b, state, opponent) ==
    IF i > Len(moves) THEN [mv |-> NoMove, board |-> b, st |-> state]
    ELSE LET p == ScanProbe(b, moves[i], state, opponent)
         IN  IF p.is_mate THEN [mv |-> moves[i], board |-> p.board, st |-> p.st]
             ELSE ScanLoop(moves, i + 1, p.board, p.st, opponent)

\* The scoring loop of find_best_move (lines 357-365) from the i-th move on.
RECURSIVE RootLoop(_, _, _, _, _, _, _, _)
RootLoop(moves, i, b, depth, colour, state, best_score, best_move) ==
    IF i > Len(moves) THEN best_move
    ELSE LET made == make_move(b, moves[i], state)
             score == -nega_max(made.board, depth - 1, -INF, INF, -colour, made.st)
             undone == undo_move(made.board, made.undo, made.st)
         IN  RootLoop(moves, i + 1, undone.board, depth, colour, undone.st,
                      IF score > best_score THEN score ELSE best_score,
                      IF score > best_score THEN moves[i] ELSE best_move)

find_best_move(b, side, depth, state) ==
    LET moves == generate_legal_moves(b, side, state)
        scan == ScanLoop(moves, 1, b, state, Other(side))
    IN  IF moves = <<>> THEN NoMove
        ELSE IF scan.mv # NoMove THEN scan.mv
        ELSE RootLoop(SortMoves(scan.board, moves), 1, scan.board, depth,
                      IF side = "white" THEN 1 ELSE -1, scan.st, -INF, NoMove)

\* The same SearchState with the display the other way up.
Flip(state) == [state EXCEPT !.white_on_bottom = ~@]

\* The depth find_best_move was called with (any depth where it returned at once).
RootDepth == IF frames = <<>> THEN 1 ELSE frames[1].call.depth

\* Two results of make_move that differ in white_on_bottom alone: the same
\* board, flags, en-passant square and Undo.
SameMake(made, flipped) ==
    /\ flipped.board = made.board
    /\ flipped.st = Flip(made.st)
    /\ flipped.undo = made.undo

\* The pawn moves of a list run toward row 0 for White and toward row 7 for Black.
PawnsAdvance(b, moves) ==
    \A i \in 1..Len(moves) :
        /\ b[moves[i].start[1]][moves[i].start[2]] = "P" => moves[i].end[1] < moves[i].start[1]
        /\ b[moves[i].start[1]][moves[i].start[2]] = "p" => moves[i].end[1] > moves[i].start[1]

\* C19: with white_on_bottom true and with it false, on the same board with the
\* same flags and en-passant square, generate_legal_moves, is_in_check, make_move
\* and find_best_move give the same results; White pawns advance toward row 0
\* and Black pawns toward row 7.
C19_OrientationIndependent ==
    /\ pc \in {"idle", "call"} =>
          \A side \in {"white", "black"} :
              LET moves == generate_legal_moves(board, side, st)
              IN  /\ generate_legal_moves(board, side, Flip(st)) = moves
                  /\ is_in_check(side, board, TRUE) = is_in_check(side, board, FALSE)
                  /\ \A i \in 1..Len(moves) :
                        SameMake(make_move(board, moves[i], st),
                                 make_move(board, moves[i], Flip(st)))
                  /\ PawnsAdvance(board, moves)
    /\ pc = "done" =>
          result = find_best_move(last.board, side_to_move, RootDepth, Flip(last.st))

\* With White shown on top, a search of depth 2 or more has returned a pawn's
\* move toward row 0, the move the same call returns with White at the bottom.
C19_Witness ==
    /\ pc = "done"
    /\ ~st.white_on_bottom
    /\ stats.calls > 0
    /\ RootDepth >= 2
    /\ result # NoMove
    /\ last.board[result.start[1]][result.start[2]] = "P"
    /\ result.end[1] < result.start[1]
    /\ result = find_best_move(last.board, side_to_move, RootDepth, Flip(last.st))

\* The search ply: the moves made on the board below the root, read from the
\* depth the running call was given.
Ply ==
    CASE pc \in {"call", "return"} -> frames[1].call.depth - call.depth
      [] pc \in {"loop", "root"} -> frames[1].call.depth - Top.call.depth
      [] OTHER -> 0

\* C20: during find_best_move and nega_max the Undo records not yet given to
\* undo_move are as many as the search ply, each is held by the call that made
\* it, in the order they were made; the record a returning call's caller gives
\* to undo_move is the newest of them; every record made has been given to
\* undo_move once when the search returns.
C20_StrictNesting ==
    /\ Len(undo_stack) = Ply
    /\ stats.made - stats.undone = Len(undo_stack)
    /\ \A k \in 1..Len(undo_stack) :
          /\ frames[k].slot = k
          /\ frames[k].undo = undo_stack[k].undo
    /\ pc = "return" => Top.slot = Len(undo_stack)
    /\ pc = "done" => undo_stack = <<>> /\ stats.made = stats.undone

\* Three moves deep, after cutoffs, a call has returned and its caller is about
\* to undo the third move while two older records wait.
C20_Witness ==
    /\ pc = "return"
    /\ Ply = 3
    /\ Len(undo_stack) = 3
    /\ Top.slot = 3
    /\ stats.cutoffs > 0
    /\ stats.undone > 0

\* The board and SearchState the call that has just returned was entered with:
\* those its caller's make_move produced.
EntryOfReturned ==
    make_move(undo_stack[Len(undo_stack)].board, undo_stack[Len(undo_stack)].mv,
              undo_stack[Len(undo_stack)].st)

\* C21: when nega_max returns, by a terminal node, the depth cutoff, a beta cutoff
\* or the end of its loop, and when find_best_move returns, by an empty root
\* list, the mate-in-one shortcut or the end of its scoring loop, the board and
\* the SearchState are those of the call's entry.
C21_SearchRestores ==
    /\ pc = "return" => board = EntryOfReturned.board /\ st = EntryOfReturned.st
    /\ pc = "done" => board = last.board /\ st = last.st

\* A nega_max call with moves has returned by a beta cutoff, on the board and
\* state it was entered with, which differ from the root's.
C21_Witness ==
    /\ pc = "return"
    /\ call.depth >= 1
    /\ ret >= call.beta
    /\ generate_legal_moves(board, side_str(call.colour), st) # <<>>
    /\ board = EntryOfReturned.board
    /\ st = EntryOfReturned.st
    /\ board # last.board

(***************************************************************************)
(* The board generate_legal_moves leaves behind: every call it makes that   *)
(* writes to the board, in the order it makes them, each on the board the   *)
(* call before it left.  Its SearchState argument is only read.            *)
(***************************************************************************)
\* The loop `for (er, ec) in dests` of one piece, from the i-th destination on:
\* the next iteration runs on the board the filter left (b itself where that
\* board equals b).
RECURSIVE DestsLoopBoard(_, _, _, _, _, _)
DestsLoopBoard(start, dests, i, b, side, state) ==
    IF i > Len(dests) THEN b
    ELSE LET left == leaves_king_in_check_board(start, dests[i], b, side,
                                                state.white_on_bottom,
                                                state.last_pawn_move)
         IN  IF left = b THEN DestsLoopBoard(start, dests, i + 1, b, side, state)
             ELSE DestsLoopBoard(start, dests, i + 1, left, side, state)

\* 1) Normal piece moves, from the k-th square on.
RECURSIVE PieceMovesLoopBoard(_, _, _, _)
PieceMovesLoopBoard(k, b, side, state) ==
    IF k > 63 THEN b
    ELSE IF \/ side = "white" /\ isupper(b[k \div 8][k % 8])
            \/ side = "black" /\ islower(b[k \div 8][k % 8])
    THEN PieceMovesLoopBoard(
             k + 1,
             DestsLoopBoard(SquareAt(k),
                            calculate_valid_moves(SquareAt(k), b, state.white_on_bottom,
                                                  state.last_pawn_move),
                            1, b, side, state),
             side, state)
    ELSE PieceMovesLoopBoard(k + 1, b, side, state)

\* The board after calculate_castling_moves for the king on the k-th square.
CastlingProbesBoard(k, b, side, state) ==
    CastleWingsBoard(k \div 8, k % 8, b, state.white_on_bottom, side,
                     CastleSetup(side, state.white_king_moved,
                                 state.white_rook_left_moved, state.white_rook_right_moved,
                                 state.black_king_moved, state.black_rook_left_moved,
                                 state.black_rook_right_moved))

\* 2) Castling moves, from the k-th square on: the probes of
\* calculate_castling_moves, then the legality filter on each castle it offers.
RECURSIVE CastleMovesLoopBoard(_, _, _, _)
CastleMovesLoopBoard(k, b, side, state) ==
    IF k > 63 THEN b
    ELSE IF \/ side = "white" /\ b[k \div 8][k % 8] = "K"
            \/ side = "black" /\ b[k \div 8][k % 8] = "k"
    THEN CastleMovesLoopBoard(
             k + 1,
             DestsLoopBoard(SquareAt(k),
                            calculate_castling_moves(k \div 8, k % 8,
                                b[k \div 8][k % 8], b, state.white_on_bottom,
                                state.white_king_moved, state.white_rook_left_moved,
                                state.white_rook_right_moved,
                                state.black_king_moved, state.black_rook_left_moved,
                                state.black_rook_right_moved),
                            1, CastlingProbesBoard(k, b, side, state), side, state),
             side, state)
    ELSE CastleMovesLoopBoard(k + 1, b, side, state)

generate_legal_moves_board(b, side, state) ==
    CastleMovesLoopBoard(0, PieceMovesLoopBoard(0, b, side, state), side, state)

\* C22: generate_legal_moves, with every simulation of leaves_king_in_check and
\* every king that squares_under_attack places, leaves the board as it was when
\* it was called, for either side; it only reads the SearchState.
C22_GenerateRestores ==
    \A side \in {"white", "black"} :
        /\ generate_legal_moves_board(board, side, st) = board
        /\ \A sq \in Rows \X Rows, to \in Rows \X Rows :
              board[sq[1]][sq[2]] # "." /\ to # sq =>
                 leaves_king_in_check_board(sq, to, board, side, st.white_on_bottom,
                                            st.last_pawn_move) = board
        /\ \A row \in {0, 7}, c \in {2, 5} :
              squares_under_attack_board(<< <<row, c>>, <<row, c + 1>> >>, 1, side,
                                         board, st.white_on_bottom) = board

\* After a double push an en-passant capture is among the moves generated, the
\* side to move has castling probes to run, and the board is left as it was.
C22_Witness ==
    /\ st.last_pawn_move # NoPos
    /\ \E i \in 1..Len(generate_legal_moves(board, side_to_move, st)) :
          generate_legal_moves(board, side_to_move, st)[i].is_en_passant
    /\ generate_legal_moves_board(board, side_to_move, st) = board

\* The en-passant captures open to `side`: a pawn's diagonal step onto an empty
\* square while the enemy pawn beside it is last_pawn_move.
EnPassantCandidates(b, side, state) ==
    {se \in UnfilteredStartEnds(b, side, state) :
        /\ b[se[1][1]][se[1][2]] = (IF side = "white" THEN "P" ELSE "p")
        /\ se[1][2] # se[2][2]
        /\ b[se[2][1]][se[2][2]] = "."
        /\ state.last_pawn_move = <<se[1][1], se[2][2]>>
        /\ b[se[1][1]][se[2][2]] = (IF side = "white" THEN "p" ELSE "P")}

\* The board after the en-passant capture from `from` to `to`: the pawn on `to`,
\* its square and the captured pawn's square empty.
AfterEnPassant(b, from, to) ==
    SetCell(SetCell(SetCell(b, from[1], from[2], "."), to[1], to[2], b[from[1]][from[2]]),
            from[1], to[2], ".")

\* C23: for an en-passant capture, leaves_king_in_check gives what is_in_check
\* gives for the mover on the board after the capture, the captured pawn removed.
C23_EnPassantSimulated ==
    \A side \in {"white", "black"} :
        \A se \in EnPassantCandidates(board, side, st) :
            leaves_king_in_check(se[1], se[2], board, side, st.white_on_bottom,
                                 st.last_pawn_move)
              = is_in_check(side, AfterEnPassant(board, se[1], se[2]), st.white_on_bottom)

\* After a double push that gives check, the capture that takes the checking pawn
\* en passant is rejected although the mover's king is safe once it is gone.
C23_Witness ==
    /\ last.op = "make"
    /\ DoublePush
    /\ \E se \in EnPassantCandidates(board, side_to_move, st) :
          /\ leaves_king_in_check(se[1], se[2], board, side_to_move, st.white_on_bottom,
                                  st.last_pawn_move)
          /\ ~is_in_check(side_to_move, AfterEnPassant(board, se[1], se[2]),
                          st.white_on_bottom)

\* C24: after make_move, last_pawn_move is the move's destination exactly when
\* the moved piece is a pawn that advanced two rows on its file without
\* promoting; after any other move it is none.
C24_LastPawnMoveSet ==
    last.op = "make" =>
        /\ st.last_pawn_move = last.mv.end <=> DoublePush /\ last.mv.promotion = NoPiece
        /\ st.last_pawn_move # last.mv.end => st.last_pawn_move = NoPos

\* A pawn has answered a double push by taking en passant: the target the push
\* set is gone.
C24_Witness ==
    /\ last.op = "make"
    /\ last.mv.is_en_passant
    /\ last.st.last_pawn_move = <<last.mv.start[1], last.mv.end[2]>>
    /\ Len(undo_stack) = 2
    /\ undo_stack[1].undo.moved_piece \in {"P", "p"}
    /\ last.st.last_pawn_move = undo_stack[1].mv.end
    /\ st.last_pawn_move = NoPos

\* A capture, an en-passant capture or a promotion on board b.
Tactical(b, mv) ==
    \/ b[mv.end[1]][mv.end[2]] # "."
    \/ mv.is_en_passant
    \/ mv.promotion # NoPiece

\* The place of a move in a list that holds it.
IndexIn(moves, mv) == CHOOSE k \in 1..Len(moves) : moves[k] = mv

\* The list a loop runs over holds the generated moves, captures, en-passant
\* captures and promotions before the rest, equal keys in generation order.
OrderedFrom(b, ordered, generated) ==
    /\ Len(ordered) = Len(generated)
    /\ \A i \in 1..Len(ordered) : Contains(generated, ordered[i])
    /\ \A i \in 1..Len(ordered), j \in 1..Len(ordered) :
          i < j =>
             /\ Tactical(b, ordered[j]) => Tactical(b, ordered[i])
             /\ _move_order_key(b, ordered[i]) = _move_order_key(b, ordered[j])
                   => IndexIn(generated, ordered[i]) < IndexIn(generated, ordered[j])

\* C25: the moves nega_max's loop and find_best_move's scoring loop try, in the
\* order they try them, are the generated moves with every capture, en-passant
\* capture and promotion before every other move, and with moves of equal
\* ordering score in generation order.
C25_TacticalMovesFirst ==
    pc \in {"loop", "root"} =>
        OrderedFrom(board, Top.moves,
                    generate_legal_moves(board, side_str(Top.call.colour), st))

\* A nega_max loop has tried its first move, a capture that generation listed
\* after a quiet move.
C25_Witness ==
    /\ pc = "loop"
    /\ Top.i > 1
    /\ Tactical(board, Top.moves[1])
    /\ ~Tactical(board, generate_legal_moves(board, side_str(Top.call.colour), st)[1])
    /\ \E j \in 2..Len(Top.moves) : ~Tactical(board, Top.moves[j])

\* The score find_best_move gives a root move: -nega_max(depth - 1, -INF, +INF)
\* on the board after it.
RootScore(b, mv, depth, colour, state) ==
    -nega_max(make_move(b, mv, state).board, depth - 1, -INF, INF, -colour,
              make_move(b, mv, state).st)

\* The places in the ordered root list of the moves whose score is the greatest.
BestPlaces(ordered, depth) ==
    LET colour == IF side_to_move = "white" THEN 1 ELSE -1
        score == [i \in 1..Len(ordered) |-> RootScore(board, ordered[i], depth, colour, st)]
    IN  {i \in 1..Len(ordered) : \A j \in 1..Len(ordered) : score[j] <= score[i]}

\* C26: when no root move mates at once, find_best_move of depth d >= 1 returns a
\* root move whose score -nega_max(d - 1, -INF, +INF) is the greatest of all root
\* moves, the first such move in the ordered list.
C26_FirstBestRootMove ==
    pc = "done" =>
        LET moves == generate_legal_moves(board, side_to_move, st)
            ordered == SortMoves(board, moves)
            best == BestPlaces(ordered, RootDepth)
        IN  moves # <<>> /\ MatingMoves(moves) = {} =>
                result = ordered[CHOOSE i \in best : \A j \in best : i <= j]

\* A search of depth 2 or more has returned the first of several root moves that
\* share the greatest score.
C26_Witness ==
    /\ pc = "done"
    /\ stats.calls > 0
    /\ RootDepth >= 2
    /\ Cardinality(BestPlaces(frames[1].moves, RootDepth)) >= 2
    /\ \E i \in BestPlaces(frames[1].moves, RootDepth) :
          /\ result = frames[1].moves[i]
          /\ \A j \in BestPlaces(frames[1].moves, RootDepth) : i <= j

\* The four kinds of pawn move, for a pawn of `side` on `from`: dir is -1 for
\* White and 1 for Black, home is row 6 for White and row 1 for Black.
PawnAdvance(b, from, to, dir) ==
    /\ to = <<from[1] + dir, from[2]>>
    /\ b[to[1]][to[2]] = "."

PawnDoubleAdvance(b, from, to, dir, home) ==
    /\ from[1] = home
    /\ to = <<from[1] + 2 * dir, from[2]>>
    /\ b[from[1] + dir][from[2]] = "."
    /\ b[to[1]][to[2]] = "."

PawnCapture(b, from, to, dir, side) ==
    /\ to[1] = from[1] + dir
    /\ Abs(to[2] - from[2]) = 1
    /\ b[to[1]][to[2]] \in (IF side = "white" THEN BlackPieces ELSE WhitePieces)

PawnEnPassant(b, from, to, dir, side, state) ==
    /\ to[1] = from[1] + dir
    /\ Abs(to[2] - from[2]) = 1
    /\ b[to[1]][to[2]] = "."
    /\ b[from[1]][to[2]] = (IF side = "white" THEN "p" ELSE "P")
    /\ state.last_pawn_move = <<from[1], to[2]>>

\* How many of the four kinds the move mv of a pawn of `side` is.
PawnKinds(b, mv, side, state) ==
    LET dir == IF side = "white" THEN -1 ELSE 1
        home == IF side = "white" THEN 6 ELSE 1
    IN  (IF PawnAdvance(b, mv.start, mv.end, dir) THEN 1 ELSE 0)
        + (IF PawnDoubleAdvance(b, mv.start, mv.end, dir, home) THEN 1 ELSE 0)
        + (IF PawnCapture(b, mv.start, mv.end, dir, side) THEN 1 ELSE 0)
        + (IF PawnEnPassant(b, mv.start, mv.end, dir, side, state) THEN 1 ELSE 0)

\* C27: every pawn move generate_legal_moves returns is exactly one of a
\* one-square advance onto an empty square, a two-square advance from the home
\* rank over two empty squares, a forward-diagonal step onto an enemy piece, and
\* a forward-diagonal step onto an empty square beside an enemy pawn that is
\* last_pawn_move; the last kind, and no other, is flagged is_en_passant.
C27_PawnMoveKinds ==
    \A side \in {"white", "black"} :
        \A moves \in {generate_legal_moves(board, side, st)} :
        \A i \in 1..Len(moves) :
        \A mv \in {moves[i]} :
            board[mv.start[1]][mv.start[2]] \in {"P", "p"} =>
                /\ PawnKinds(board, mv, side, st) = 1
                /\ mv.is_en_passant <=>
                      PawnEnPassant(board, mv.start, mv.end,
                                    IF side = "white" THEN -1 ELSE 1, side, st)

\* After a double push the other side has a pawn that may advance one square and
\* a pawn that may take the pushed pawn en passant.
C27_Witness ==
    /\ DoublePush
    /\ \E i \in 1..Len(generate_legal_moves(board, side_to_move, st)) :
          LET mv == generate_legal_moves(board, side_to_move, st)[i]
          IN  /\ mv.is_en_passant
              /\ PawnEnPassant(board, mv.start, mv.end,
                               IF side_to_move = "white" THEN -1 ELSE 1, side_to_move, st)
    /\ \E i \in 1..Len(generate_legal_moves(board, side_to_move, st)) :
          LET mv == generate_legal_moves(board, side_to_move, st)[i]
          IN  /\ board[mv.start[1]][mv.start[2]] \in {"P", "p"}
              /\ PawnAdvance(board, mv.start, mv.end,
                             IF side_to_move = "white" THEN -1 ELSE 1)

(***************************************************************************)
(* legal_moves.py: the moves of a bishop, rook or queen, called on boards   *)
(* that hold the piece and up to two others.                               *)
(***************************************************************************)
SliderPieces == {"B", "R", "Q", "b", "r", "q"}

\* The squares the piece is put on: a corner, the centre, two edges.
SliderSquares == {<<0, 0>>, <<3, 3>>, <<4, 7>>, <<7, 2>>}

\* The squares the other pieces are put on, and what is put there.
BlockerSquares == {0, 3, 5, 7} \X {0, 3, 5, 7}
BlockerPieces == {".", "N", "n"}

EmptyBoard == [r \in Rows |-> [c \in Rows |-> "."]]

\* The board with `piece` on `position` and x, y on the squares a, c.
SliderBoard(piece, position, x, a, y, c) ==
    SetCell(SetCell(SetCell(EmptyBoard, a[1], a[2], x), c[1], c[2], y),
            position[1], position[2], piece)

SliderInputs ==
    {[board |-> SliderBoard(piece, position, x, a, y, c), position |-> position] :
        piece \in SliderPieces, position \in SliderSquares,
        x \in BlockerPieces, a \in BlockerSquares,
        y \in BlockerPieces, c \in BlockerSquares}

SlideInit ==
    /\ \E input \in SliderInputs :
          /\ board = input.board
          /\ call = [position |-> input.position]
          /\ last = [op |-> "init", mv |-> NoMove, board |-> input.board, st |-> KingsMoved]
    /\ st = KingsMoved
    /\ side_to_move = "white"
    /\ rights = {}
    /\ undo_stack = <<>>
    /\ pc = "idle"
    /\ frames = <<>>
    /\ ret = <<>>
    /\ result = NoMove
    /\ stats = [calls |-> 0, cutoffs |-> 0, mates |-> {}, made |-> 0, undone |-> 0]

\* calculate_valid_moves(position, board_state, ...) is called on the piece.
CalculateValidMoves ==
    /\ pc = "idle"
    /\ ret' = calculate_valid_moves(call.position, board, st.white_on_bottom,
                                    st.last_pawn_move)
    /\ pc' = "done"
    /\ UNCHANGED <<board, st, side_to_move, gameVars, frames, call, result, stats>>

SlideSpec == SlideInit /\ [][CalculateValidMoves]_vars

\* The direction vectors of a bishop, rook or queen.
SlideDirections(piece) ==
    (IF upper(piece) \in {"R", "Q"} THEN {<<0, 1>>, <<1, 0>>, <<0, -1>>, <<-1, 0>>} ELSE {})
    \cup
    (IF upper(piece) \in {"B", "Q"} THEN {<<1, 1>>, <<1, -1>>, <<-1, 1>>, <<-1, -1>>} ELSE {})

\* The k-th square from `from` along d.
Along(from, d, k) == <<from[1] + k * d[1], from[2] + k * d[2]>>

\* The squares a bishop, rook or queen of b on `from` may go to: along each
\* direction every empty square before the first occupied one, and the first
\* occupied one where it holds an enemy piece.
SlideDestinations(b, from) ==
    {sq \in Rows \X Rows :
        \E d \in SlideDirections(b[from[1]][from[2]]), k \in 1..7 :
            /\ sq = Along(from, d, k)
            /\ \A j \in 1..(k - 1) : b[Along(from, d, j)[1]][Along(from, d, j)[2]] = "."
            /\ \/ b[sq[1]][sq[2]] = "."
               \/ isupper(b[sq[1]][sq[2]]) # isupper(b[from[1]][from[2]])}

\* C28: for a bishop, rook or queen the destinations returned are, along each of
\* its directions, the empty squares up to the first occupied square and that
\* square exactly when it holds an enemy piece, each once; nothing beyond a
\* blocker and no square of a friendly piece.
C28_SlidersStopAtBlockers ==
    pc = "done" =>
        /\ {ret[i] : i \in 1..Len(ret)} = SlideDestinations(board, call.position)
        /\ Len(ret) = Cardinality(SlideDestinations(board, call.position))

\* The queen on (3,3) is offered (3,4) but not the friendly knight's square (3,5)
\* nor (3,6) behind it, and the enemy knight's square (5,3) but not (6,3).
C28_Witness ==
    /\ pc = "done"
    /\ call.position = <<3, 3>>
    /\ board[3][3] = "Q"
    /\ board[3][5] = "N"
    /\ board[5][3] = "n"
    /\ Contains(ret, <<3, 4>>)
    /\ ~Contains(ret, <<3, 5>>)
    /\ ~Contains(ret, <<3, 6>>)
    /\ Contains(ret, <<5, 3>>)
    /\ ~Contains(ret, <<6, 3>>)

\* The depth arguments of the nega_max calls in progress are within 0..d-1 and
\* the moves on the board are at most d, for the depth d given to find_best_move.
DepthsWithinRoot ==
    /\ pc \in {"call", "return"} => call.depth \in 0..(RootDepth - 1)
    /\ \A k \in 2..Len(frames) : frames[k].call.depth \in 0..(RootDepth - 1)
    /\ Ply <= RootDepth
    /\ Len(frames) <= RootDepth

\* C29: for every depth d >= 1 find_best_move terminates, and every nega_max call
\* made during it has a depth argument in 0..d-1: the recursion never goes below
\* depth 0 and the search tree is at most d plies deep.
C29_TerminatesWithinDepth == []DepthsWithinRoot /\ <>(pc = "done")

\* A search of depth 3 or more has returned a move after calling nega_max.
C29_Witness ==
    /\ pc = "done"
    /\ RootDepth >= 3
    /\ stats.calls >= RootDepth
    /\ stats.made = stats.undone
    /\ result # NoMove


(***************************************************************************)
(* The click handler of the board window (src/main.py).  The variable call *)
(* holds the window's globals: selected_square, valid_moves, the pending   *)
(* promotion and settings_dropdown_open.  The move list and the material   *)
(* counters, which only feed the display, are left out.                    *)
(***************************************************************************)

\* The globals before the first click (lines 28-42).
NoSelection ==
    [selected_square |-> NoPos, valid_moves |-> <<>>,
     promotion_pending |-> FALSE, promotion_from |-> NoPos, promotion_to |-> NoPos,
     promotion_piece_color |-> FALSE, settings_dropdown_open |-> FALSE]

\* deselect (lines 767-770).
deselect(gui) == [gui EXCEPT !.selected_square = NoPos, !.valid_moves = <<>>]

\* update_castling_flags (lines 678-695).
update_castling_flags(state, piece, start) ==
    IF piece = "K" THEN [state EXCEPT !.white_king_moved = TRUE]
    ELSE IF piece = "k" THEN [state EXCEPT !.black_king_moved = TRUE]
    ELSE IF piece = "R" /\ start = <<7, 0>> THEN [state EXCEPT !.white_rook_left_moved = TRUE]
    ELSE IF piece = "R" /\ start = <<7, 7>> THEN [state EXCEPT !.white_rook_right_moved = TRUE]
    ELSE IF piece = "r" /\ start = <<0, 0>> THEN [state EXCEPT !.black_rook_left_moved = TRUE]
    ELSE IF piece = "r" /\ start = <<0, 7>> THEN [state EXCEPT !.black_rook_right_moved = TRUE]
    ELSE state

\* move_piece (lines 646-651), its effect on the board.
move_piece(b, start, end) ==
    SetCell(SetCell(b, start[1], start[2], "."), end[1], end[2], b[start[1]][start[2]])

\* move_king_and_rook (lines 653-676), its effect on the board after move_piece
\* has put the king on its target.
move_king_and_rook(b, start, end, piece) ==
    IF piece = "K" /\ end[2] = start[2] + 2 THEN SetCell(SetCell(b, 7, 7, "."), 7, 5, "R")
    ELSE IF piece = "K" /\ end[2] = start[2] - 2 THEN SetCell(SetCell(b, 7, 0, "."), 7, 3, "R")
    ELSE IF piece = "k" /\ end[2] = start[2] + 2 THEN SetCell(SetCell(b, 0, 7, "."), 0, 5, "r")
    ELSE IF piece = "k" /\ end[2] = start[2] - 2 THEN SetCell(SetCell(b, 0, 0, "."), 0, 3, "r")
    ELSE b

\* The moves offered for a selected piece (lines 635-642): its movement pattern,
\* computed without the last pawn move, less the moves leaves_king_in_check
\* rejects, then the castling moves.
SelectableMoves(position, b, turn, state) ==
    SelectSeq(calculate_valid_moves(position, b, state.white_on_bottom, NoPos),
              LAMBDA move : ~leaves_king_in_check(position, move, b, turn,
                                                  state.white_on_bottom, state.last_pawn_move))
    \o calculate_castling_moves(position[1], position[2], b[position[1]][position[2]], b,
           state.white_on_bottom,
           state.white_king_moved, state.white_rook_left_moved, state.white_rook_right_moved,
           state.black_king_moved, state.black_rook_left_moved, state.black_rook_right_moved)

\* The board after move_piece and the removal of the pawn handle_click takes for
\* captured en passant (lines 525-554).
BoardAfterClick(b, start, end, state) ==
    IF en_passant(start, end, b[start[1]][start[2]], b, state.last_pawn_move, state.white_on_bottom)
    THEN SetCell(move_piece(b, start, end),
                 end[1] - get_pawn_direction(b[start[1]][start[2]], state.white_on_bottom),
                 end[2], ".")
    ELSE move_piece(b, start, end)

\* The board put back when the move left the mover in check (lines 616-625).
BoardPutBack(b, start, end, state) ==
    IF en_passant(start, end, b[start[1]][start[2]], b, state.last_pawn_move, state.white_on_bottom)
    THEN SetCell(b, end[1] - get_pawn_direction(b[start[1]][start[2]], state.white_on_bottom),
                 end[2], IF b[start[1]][start[2]] = "P" THEN "p" ELSE "P")
    ELSE b

\* last_pawn_move after an applied move (lines 571-579).
LastPawnMoveOfClick(piece, start, end) ==
    IF piece \in {"P", "p"} /\ Abs(end[1] - start[1]) = 2 THEN end ELSE NoPos

\* Positions the window is clicked in.
KnightBesidePawnPosition ==
    Position(<<Row(".", ".", ".", ".", "k", ".", ".", "."),
               Row(".", ".", ".", "p", ".", ".", ".", "."),
               EmptyRow, EmptyRow,
               Row(".", ".", "N", ".", ".", ".", ".", "."),
               EmptyRow, EmptyRow,
               Row(".", ".", ".", ".", "K", ".", ".", ".")>>,
             "black", KingsMoved, {})

PromoteOrCastlePosition ==
    Position(<<Row("k", ".", ".", ".", ".", ".", ".", "."),
               Row(".", ".", ".", ".", ".", ".", ".", "P"),
               EmptyRow, EmptyRow, EmptyRow, EmptyRow,
               Row("p", ".", ".", ".", ".", ".", ".", "."),
               Row(".", ".", ".", ".", "K", ".", ".", "R")>>,
             "white", SearchState(TRUE, FALSE, TRUE, FALSE, TRUE, TRUE, TRUE, NoPos), {"K"})

ClickPositions == {KnightBesidePawnPosition, PromoteOrCastlePosition}

ClickInit ==
    /\ \E p \in ClickPositions :
          /\ board = p.board
          /\ st = p.st
          /\ side_to_move = p.side
          /\ rights = p.rights
          /\ last = [op |-> "init", mv |-> NoMove, board |-> p.board, st |-> p.st]
    /\ undo_stack = <<>>
    /\ pc = "idle"
    /\ frames = <<>>
    /\ call = NoSelection
    /\ ret = 0
    /\ result = NoMove
    /\ stats = [calls |-> 0, cutoffs |-> 0, mates |-> {}, made |-> 0, undone |-> 0]

\* A click on the gear opens or closes the settings menu (lines 357-359).
ClickGear ==
    /\ call' = [call EXCEPT !.settings_dropdown_open = ~@]
    /\ UNCHANGED <<board, st, side_to_move, gameVars, pc, frames, ret, result, stats>>

\* A click on the open menu flips the display (lines 362-371).
ClickFlipBoard ==
    /\ call.settings_dropdown_open
    /\ st' = [st EXCEPT !.white_on_bottom = ~@]
    /\ call' = [call EXCEPT !.settings_dropdown_open = FALSE]
    /\ UNCHANGED <<board, side_to_move, gameVars, pc, frames, ret, result, stats>>

\* A click on the promotion menu completes the promotion (lines 497-501 and
\* 427-486).
ClickPromotion ==
    /\ call.promotion_pending
    /\ \E selected_piece \in {"Q", "R", "B", "N"} :
          board' = SetCell(board, call.promotion_to[1], call.promotion_to[2],
                           get_promoted_piece(selected_piece, call.promotion_piece_color))
    /\ call' = [call EXCEPT !.promotion_pending = FALSE, !.promotion_from = NoPos,
                            !.promotion_to = NoPos, !.promotion_piece_color = FALSE]
    /\ side_to_move' = Other(side_to_move)
    /\ UNCHANGED <<st, gameVars, pc, frames, ret, result, stats>>

\* A click on a square with nothing selected (lines 629-644).
ClickSelect ==
    /\ ~call.promotion_pending
    /\ call.selected_square = NoPos
    /\ \E row \in Rows, col \in Rows :
          call' = IF \/ isupper(board[row][col]) /\ side_to_move = "white"
                     \/ islower(board[row][col]) /\ side_to_move = "black"
                  THEN [call EXCEPT !.selected_square = <<row, col>>,
                                    !.valid_moves = SelectableMoves(<<row, col>>, board,
                                                                    side_to_move, st)]
                  ELSE deselect(call)
    /\ UNCHANGED <<board, st, side_to_move, gameVars, pc, frames, ret, result, stats>>

\* A click on the selected square or on a square that is not offered
\* (lines 511-512 and 627-628).
ClickDeselect ==
    /\ ~call.promotion_pending
    /\ call.selected_square # NoPos
    /\ \E row \in Rows, col \in Rows :
          <<row, col>> = call.selected_square \/ ~Contains(call.valid_moves, <<row, col>>)
    /\ call' = deselect(call)
    /\ UNCHANGED <<board, st, side_to_move, gameVars, pc, frames, ret, result, stats>>

\* A click on an offered square (lines 513-626): the move is applied, and taken
\* back when it leaves the mover in check.
ClickMove ==
    /\ ~call.promotion_pending
    /\ call.selected_square # NoPos
    /\ stats.made < MaxPly
    /\ \E i \in 1..Len(call.valid_moves) :
       \E start \in {call.selected_square} :
       \E end \in {call.valid_moves[i]} :
       \E piece \in {board[start[1]][start[2]]} :
       \E after \in {BoardAfterClick(board, start, end, st)} :
          /\ end # start
          /\ IF ~is_in_check(side_to_move, after, st.white_on_bottom)
             THEN /\ board' = IF piece \in {"K", "k"} /\ Abs(start[2] - end[2]) = 2
                              THEN move_king_and_rook(after, start, end, piece)
                              ELSE after
                  /\ IF is_promotion_move(start, end, board, st.white_on_bottom)
                     THEN /\ st' = update_castling_flags(st, piece, start)
                          /\ side_to_move' = side_to_move
                          /\ call' = [deselect(call) EXCEPT
                                         !.promotion_pending = TRUE,
                                         !.promotion_from = start,
                                         !.promotion_to = end,
                                         !.promotion_piece_color = isupper(piece)]
                     ELSE /\ st' = [update_castling_flags(st, piece, start) EXCEPT
                                       !.last_pawn_move = LastPawnMoveOfClick(piece, start, end)]
                          /\ side_to_move' = Other(side_to_move)
                          /\ call' = deselect(call)
             ELSE /\ board' = BoardPutBack(board, start, end, st)
                  /\ st' = update_castling_flags(st, piece, start)
                  /\ side_to_move' = side_to_move
                  /\ call' = deselect(call)
          /\ last' = [op |-> "click",
                      mv |-> Move(start, end, NoPiece,
                                  piece \in {"K", "k"} /\ Abs(start[2] - end[2]) = 2,
                                  en_passant(start, end, piece, board, st.last_pawn_move,
                                             st.white_on_bottom)),
                      board |-> board, st |-> st]
    /\ stats' = [stats EXCEPT !.made = @ + 1]
    /\ UNCHANGED <<undo_stack, rights, pc, frames, ret, result>>

ClickNext ==
    \/ ClickGear
    \/ ClickFlipBoard
    \/ ClickPromotion
    \/ ClickSelect
    \/ ClickDeselect
    \/ ClickMove

ClickSpec == ClickInit /\ [][ClickNext]_vars

(***************************************************************************)
(* Properties of the click handler (ClickSpec).                            *)
(***************************************************************************)

\* C30: only a pawn's move is treated as an en-passant capture: en_passant is
\* false for every offered move of a selected knight, bishop, rook, queen or
\* king, and a move handle_click applies for such a piece leaves every pawn that
\* stood on a square other than the move's destination where it was.
C30_OnlyPawnsCaptureEnPassant ==
    /\ call.selected_square # NoPos =>
          \A i \in 1..Len(call.valid_moves) :
             en_passant(call.selected_square, call.valid_moves[i],
                        board[call.selected_square[1]][call.selected_square[2]],
                        board, st.last_pawn_move, st.white_on_bottom)
             => board[call.selected_square[1]][call.selected_square[2]] \in {"P", "p"}
    /\ last.op = "click" /\ last.board[last.mv.start[1]][last.mv.start[2]] \notin {"P", "p"} =>
          \A sq \in Squares :
             sq # last.mv.end /\ last.board[sq[1]][sq[2]] \in {"P", "p"}
             => board[sq[1]][sq[2]] = last.board[sq[1]][sq[2]]

\* A knight has moved beside a pawn that had just advanced two squares, and the
\* pawn is gone although the knight did not land on its square.
C30_Witness ==
    /\ last.op = "click"
    /\ last.board[last.mv.start[1]][last.mv.start[2]] = "N"
    /\ last.mv.is_en_passant
    /\ last.st.last_pawn_move # NoPos
    /\ last.st.last_pawn_move # last.mv.end
    /\ last.board[last.st.last_pawn_move[1]][last.st.last_pawn_move[2]] = "p"
    /\ board[last.st.last_pawn_move[1]][last.st.last_pawn_move[2]] = "."
    /\ board[last.mv.end[1]][last.mv.end[2]] = "N"
    /\ side_to_move = "black"

====
